---- MODULE Spec2Model ----
(***************************************************************************)
(* A model of the Cadillac (levels 9-10) speed-run solver: cards, the 5x5  *)
(* board, yaku detection / prize / chain, the level-initial layout with    *)
(* its disconnect pass, State transitions, the midgame beam search and the *)
(* endgame depth-first branch-and-bound.                                   *)
(*                                                                         *)
(* Pure functions of the source are operators with the source's names.     *)
(* Each component has its own specification (SpecBoard, SpecYaku,          *)
(* SpecLayout, SpecMidgame, SpecEndgame) over the shared variables.        *)
(***************************************************************************)
EXTENDS Integers, Sequences, FiniteSets, TLC

VARIABLES
    pc,         \* which operation acted last / phase of the driver
    board,      \* the Board under operation (25 cells, index 5*col + row)
    pile,       \* the CardPile: inner vector, LAST element is drawn next
    state,      \* a State record (frame, money, board, solution)
    res,        \* the result record of the last operation
    beam,       \* midgame: the current beam (sequence of States)
    stack,      \* endgame: the dfs call stack, innermost call last
    ply,        \* midgame: number of plies done
    args        \* the arguments the running operation was called with

vars == <<pc, board, pile, state, res, beam, stack, ply, args>>

-----------------------------------------------------------------------------
(* Card / CardSuit / CardRank  (src/src/card.rs)                           *)

None == 0

SPADE == 1
CLUB == 2
HEART == 3
DIAMOND == 4

RANK_A == 1
RANK_T == 10
RANK_J == 11
RANK_Q == 12
RANK_K == 13

Suits == SPADE..DIAMOND
Ranks == RANK_A..RANK_K

\* Card::new: inner = (suit << 4) | rank
Card(suit, rank) == 16 * suit + rank

Suit(card) == card \div 16

Rank(card) == card % 16

\* CardRank::next / CardRank::prev: cyclic successor / predecessor
RankNext(rank) == IF rank = RANK_K THEN RANK_A ELSE rank + 1

RankPrev(rank) == IF rank = RANK_A THEN RANK_K ELSE rank - 1

\* Card::all(): suits in order S, C, H, D, ranks A..K inside each suit
CardAll == [i \in 1..52 |-> Card(1 + ((i - 1) \div 13), 1 + ((i - 1) % 13))]

AllCards == {CardAll[i] : i \in 1..52}

\* Frame and Money are u16 (release build: wrapping arithmetic)
U16(x) == x % 65536

-----------------------------------------------------------------------------
(* Board  (src/src/board.rs)                                               *)

Cols == 0..4
Rows == 0..4
Squares == 0..24

\* Square::new(col, row).to_index()
Sq(col, row) == 5 * col + row

BoardNew == [sq \in Squares |-> None]

card_count(b) == Cardinality({sq \in Squares : b[sq] # None})

\* Board::col / Board::row: the five cells of a line, indexed 0..4
BoardCol(b, col) == [r \in Rows |-> b[Sq(col, r)]]

BoardRow(b, row) == [c \in Cols |-> b[Sq(c, row)]]

\* position(Option::is_none) over a column: first empty row index, 5 if none
RECURSIVE FirstNone(_, _)
FirstNone(ary, i) ==
    IF i > 4 THEN 5
    ELSE IF ary[i] = None THEN i
    ELSE FirstNone(ary, i + 1)

put_frame_mut(i) == 37 + 16 * (4 - (i + 1))

put_frame(i) == 37 + 16 * (4 - i)

\* Board::put: None (as the record ok |-> FALSE) when the column has no
\* empty cell; otherwise the board with the first empty cell of the column
\* filled and the frame cost.  The input board is a value: never modified.
put(b, col, card) ==
    LET i == FirstNone(BoardCol(b, col), 0)
    IN  IF i = 5
        THEN [ok |-> FALSE, board |-> b, frame |-> 0]
        ELSE [ok |-> TRUE,
              board |-> [b EXCEPT ![Sq(col, i)] = card],
              frame |-> put_frame(i)]

\* fall_col: for j in 0..5 { if let Some(card) = ary[j].take()
\*                           { ary[i] = Some(card); frame += 8*(j-i); i += 1 } }
RECURSIVE fall_col_loop(_, _, _, _)
fall_col_loop(ary, i, j, frame) ==
    IF j > 4 THEN [ary |-> ary, frame |-> frame]
    ELSE IF ary[j] # None
    THEN fall_col_loop([[ary EXCEPT ![j] = None] EXCEPT ![i] = ary[j]],
                       i + 1, j + 1, frame + 8 * (j - i))
    ELSE fall_col_loop(ary, i, j + 1, frame)

fall_col_mut(ary) == [ary |-> ary, frame |-> 0]

fall_col(ary) == fall_col_loop(ary, 0, 0, 0)

\* Board::fall: every column settled, the frame costs summed
fall(b) ==
    LET f == [col \in Cols |-> fall_col(BoardCol(b, col))]
    IN  [board |-> [sq \in Squares |-> f[sq \div 5].ary[sq % 5]],
         frame |-> f[0].frame + f[1].frame + f[2].frame + f[3].frame + f[4].frame]

-----------------------------------------------------------------------------
(* Yaku detection  (src/src/yaku.rs)                                       *)

\* straight_len_ascend / straight_len_descend on the slice ary[i..], the
\* previous card of the run being `card`
RECURSIVE straight_len_ascend(_, _, _)
straight_len_ascend(card, ary, i) ==
    IF i > 4 THEN 1
    ELSE IF ary[i] = None THEN 1
    ELSE IF RankNext(Rank(card)) # Rank(ary[i]) THEN 1
    ELSE 1 + straight_len_ascend(ary[i], ary, i + 1)

RECURSIVE straight_len_descend(_, _, _)
straight_len_descend(card, ary, i) ==
    IF i > 4 THEN 1
    ELSE IF ary[i] = None THEN 1
    ELSE IF RankPrev(Rank(card)) # Rank(ary[i]) THEN 1
    ELSE 1 + straight_len_descend(ary[i], ary, i + 1)

\* The ascending run alone
straight_len_mut(ary, a) ==
    IF ary[a] = None THEN 0 ELSE straight_len_ascend(ary[a], ary, a + 1)

\* straight_len(&ary[a..]): ascending run if it has >= 2 cards, else descending
straight_len(ary, a) ==
    IF ary[a] = None THEN 0
    ELSE LET len_ascend == straight_len_ascend(ary[a], ary, a + 1)
         IN  IF len_ascend >= 2 THEN len_ascend
             ELSE straight_len_descend(ary[a], ary, a + 1)

\* position(|card| card is None or differs from first) on ary[a..]
RECURSIVE SameSuitLen(_, _, _)
SameSuitLen(first, ary, i) ==
    IF i > 4 THEN 0
    ELSE IF ary[i] = None \/ Suit(ary[i]) # Suit(first) THEN 0
    ELSE 1 + SameSuitLen(first, ary, i + 1)

RECURSIVE SameRankLen(_, _, _)
SameRankLen(first, ary, i) ==
    IF i > 4 THEN 0
    ELSE IF ary[i] = None \/ Rank(ary[i]) # Rank(first) THEN 0
    ELSE 1 + SameRankLen(first, ary, i + 1)

flush_len(ary, a) == IF ary[a] = None THEN 0 ELSE SameSuitLen(ary[a], ary, a)

n_of_kind_len(ary, a) == IF ary[a] = None THEN 0 ELSE SameRankLen(ary[a], ary, a)

\* The length function of a category (the detect_*_row/col functions differ
\* only in which of the three they call)
run_len(cat, ary, a) ==
    IF cat = "straight" THEN straight_len(ary, a)
    ELSE IF cat = "flush" THEN flush_len(ary, a)
    ELSE n_of_kind_len(ary, a)

\* The row scan shared by detect_*_row: anchors 0, 1, 2 in order, the first
\* anchor whose run has length >= 3 is marked and ends the scan.
\* The result is the set of line indices marked.
DetectRow(cat, ary) ==
    IF run_len(cat, ary, 0) >= 3 THEN 0..(run_len(cat, ary, 0) - 1)
    ELSE IF run_len(cat, ary, 1) >= 3 THEN 1..run_len(cat, ary, 1)
    ELSE IF run_len(cat, ary, 2) >= 3 THEN 2..(1 + run_len(cat, ary, 2))
    ELSE {}

\* The column scan shared by detect_*_col: as the row scan, but an empty
\* anchor cell ends the scan of the column (cards are assumed settled).
DetectCol(cat, ary) ==
    IF ary[0] = None THEN {}
    ELSE IF run_len(cat, ary, 0) >= 3 THEN 0..(run_len(cat, ary, 0) - 1)
    ELSE IF ary[1] = None THEN {}
    ELSE IF run_len(cat, ary, 1) >= 3 THEN 1..run_len(cat, ary, 1)
    ELSE IF ary[2] = None THEN {}
    ELSE IF run_len(cat, ary, 2) >= 3 THEN 2..(1 + run_len(cat, ary, 2))
    ELSE {}

detect_straight_row(b, row) == {Sq(c, row) : c \in DetectRow("straight", BoardRow(b, row))}

detect_straight_col(b, col) == {Sq(col, r) : r \in DetectCol("straight", BoardCol(b, col))}

detect_flush_row(b, row) == {Sq(c, row) : c \in DetectRow("flush", BoardRow(b, row))}

detect_flush_col(b, col) == {Sq(col, r) : r \in DetectCol("flush", BoardCol(b, col))}

detect_n_of_kind_row(b, row) == {Sq(c, row) : c \in DetectRow("n_of_kind", BoardRow(b, row))}

detect_n_of_kind_col(b, col) == {Sq(col, r) : r \in DetectCol("n_of_kind", BoardCol(b, col))}

\* detect_straight / detect_flush / detect_n_of_kind: the squares whose
\* mask gets the category's bit
detect_straight(b) ==
    UNION ({detect_straight_row(b, row) : row \in Rows}
           \cup {detect_straight_col(b, col) : col \in Cols})

detect_flush(b) ==
    UNION ({detect_flush_row(b, row) : row \in Rows}
           \cup {detect_flush_col(b, col) : col \in Cols})

detect_n_of_kind(b) ==
    UNION ({detect_n_of_kind_row(b, row) : row \in Rows}
           \cup {detect_n_of_kind_col(b, col) : col \in Cols})

\* YakuMask bits
BIT_STRAIGHT == 1
BIT_FLUSH == 2
BIT_N_OF_KIND == 4

has_straight(mask) == mask % 2 = 1

has_flush(mask) == (mask \div 2) % 2 = 1

has_n_of_kind(mask) == (mask \div 4) % 2 = 1

has_straight_flush(mask) == has_straight(mask) /\ has_flush(mask)

is_zero(mask) == mask = 0

\* detect_yaku: the YakuBoard, a mask per square
detect_yaku(b) ==
    LET st == detect_straight(b)
        fl == detect_flush(b)
        nk == detect_n_of_kind(b)
    IN  [sq \in Squares |->
            (IF sq \in st THEN BIT_STRAIGHT ELSE 0)
          + (IF sq \in fl THEN BIT_FLUSH ELSE 0)
          + (IF sq \in nk THEN BIT_N_OF_KIND ELSE 0)]

squares_nonzero(yb) == {sq \in Squares : ~is_zero(yb[sq])}

count_nonzero(yb) == Cardinality(squares_nonzero(yb))

-----------------------------------------------------------------------------
(* Prize calculation  (src/src/yaku.rs)                                    *)

PRIZE_ROYAL_FLUSH == 200
PRIZE_STRAIGHT_FLUSH_5 == 120
PRIZE_STRAIGHT_FLUSH_4 == 40
PRIZE_STRAIGHT_FLUSH_3 == 39
PRIZE_STRAIGHT_5 == 50
PRIZE_STRAIGHT_4 == 20
PRIZE_STRAIGHT_3 == 10
PRIZE_FLUSH_5 == 30
PRIZE_FLUSH_4 == 10
PRIZE_FLUSH_3 == 1
PRIZE_FOUR_OF_KIND == 100
PRIZE_THREE_OF_KIND == 30

\* The straight flush table with the prizes of 3 and 4 cards exchanged
prize_straight_flush_mut(len) ==
    CASE len = 3 -> PRIZE_STRAIGHT_FLUSH_4
      [] len = 4 -> PRIZE_STRAIGHT_FLUSH_3
      [] len = 5 -> PRIZE_STRAIGHT_FLUSH_5

prize_straight_flush(len) ==
    CASE len = 3 -> PRIZE_STRAIGHT_FLUSH_3
      [] len = 4 -> PRIZE_STRAIGHT_FLUSH_4
      [] len = 5 -> PRIZE_STRAIGHT_FLUSH_5

prize_straight(len) ==
    CASE len = 3 -> PRIZE_STRAIGHT_3
      [] len = 4 -> PRIZE_STRAIGHT_4
      [] len = 5 -> PRIZE_STRAIGHT_5

prize_flush_mut(len) ==
    CASE len = 3 -> 0
      [] len = 4 -> PRIZE_FLUSH_4
      [] len = 5 -> PRIZE_FLUSH_5

prize_flush(len) ==
    CASE len = 3 -> PRIZE_FLUSH_3
      [] len = 4 -> PRIZE_FLUSH_4
      [] len = 5 -> PRIZE_FLUSH_5

prize_n_of_kind(len) ==
    CASE len = 3 -> PRIZE_THREE_OF_KIND
      [] len \in 4..5 -> PRIZE_FOUR_OF_KIND

\* YakuMask::has_* chosen by category
mask_has(cat, mask) ==
    IF cat = "straight" THEN has_straight(mask)
    ELSE IF cat = "flush" THEN has_flush(mask)
    ELSE IF cat = "n_of_kind" THEN has_n_of_kind(mask)
    ELSE has_straight_flush(mask)

\* yaku_len(&ary[a..], cond): the number of leading masks satisfying cond
RECURSIVE yaku_len(_, _, _)
yaku_len(cat, ary, a) ==
    IF a > 4 THEN 0
    ELSE IF ~mask_has(cat, ary[a]) THEN 0
    ELSE 1 + yaku_len(cat, ary, a + 1)

\* The anchor scan shared by the calc_prize_*_row/col functions: the length
\* of the first run (anchors 0, 1, 2) of >= 3 masks with the category, 0 if none
PrizeRunLen(cat, ary) ==
    IF yaku_len(cat, ary, 0) >= 3 THEN yaku_len(cat, ary, 0)
    ELSE IF yaku_len(cat, ary, 1) >= 3 THEN yaku_len(cat, ary, 1)
    ELSE IF yaku_len(cat, ary, 2) >= 3 THEN yaku_len(cat, ary, 2)
    ELSE 0

YakuCol(yb, col) == [r \in Rows |-> yb[Sq(col, r)]]

YakuRow(yb, row) == [c \in Cols |-> yb[Sq(c, row)]]

\* ranks_is_royal that knows the ascending reading only
ranks_is_royal_mut(ranks) == ranks = <<RANK_T, RANK_J, RANK_Q, RANK_K, RANK_A>>

ranks_is_royal(ranks) ==
    \/ ranks = <<RANK_T, RANK_J, RANK_Q, RANK_K, RANK_A>>
    \/ ranks = <<RANK_A, RANK_K, RANK_Q, RANK_J, RANK_T>>

calc_prize_straight_flush_row(b, yb, row) ==
    LET len == PrizeRunLen("straight_flush", YakuRow(yb, row))
    IN  IF len = 0 THEN 0
        ELSE prize_straight_flush(len)
             + (IF len = 5 /\ ranks_is_royal([i \in 1..5 |-> Rank(b[Sq(i - 1, row)])])
                THEN PRIZE_ROYAL_FLUSH ELSE 0)

calc_prize_straight_flush_col(yb, col) ==
    LET len == PrizeRunLen("straight_flush", YakuCol(yb, col))
    IN  IF len = 0 THEN 0 ELSE prize_straight_flush(len)

calc_prize_straight_row(yb, row) ==
    LET len == PrizeRunLen("straight", YakuRow(yb, row))
    IN  IF len = 0 THEN 0 ELSE prize_straight(len)

calc_prize_straight_col(yb, col) ==
    LET len == PrizeRunLen("straight", YakuCol(yb, col))
    IN  IF len = 0 THEN 0 ELSE prize_straight(len)

calc_prize_flush_row(yb, row) ==
    LET len == PrizeRunLen("flush", YakuRow(yb, row))
    IN  IF len = 0 THEN 0 ELSE prize_flush(len)

calc_prize_flush_col(yb, col) ==
    LET len == PrizeRunLen("flush", YakuCol(yb, col))
    IN  IF len = 0 THEN 0 ELSE prize_flush(len)

calc_prize_n_of_kind_row(yb, row) ==
    LET len == PrizeRunLen("n_of_kind", YakuRow(yb, row))
    IN  IF len = 0 THEN 0 ELSE prize_n_of_kind(len)

calc_prize_n_of_kind_col(yb, col) ==
    LET len == PrizeRunLen("n_of_kind", YakuCol(yb, col))
    IN  IF len = 0 THEN 0 ELSE prize_n_of_kind(len)

\* Sum of f[0..4]
Sum5(f) == f[0] + f[1] + f[2] + f[3] + f[4]

calc_prize_straight_flush(b, yb) ==
    Sum5([row \in Rows |-> calc_prize_straight_flush_row(b, yb, row)])
    + Sum5([col \in Cols |-> calc_prize_straight_flush_col(yb, col)])

calc_prize_straight(yb) ==
    Sum5([row \in Rows |-> calc_prize_straight_row(yb, row)])
    + Sum5([col \in Cols |-> calc_prize_straight_col(yb, col)])

calc_prize_flush(yb) ==
    Sum5([row \in Rows |-> calc_prize_flush_row(yb, row)])
    + Sum5([col \in Cols |-> calc_prize_flush_col(yb, col)])

calc_prize_n_of_kind(yb) ==
    Sum5([row \in Rows |-> calc_prize_n_of_kind_row(yb, row)])
    + Sum5([col \in Cols |-> calc_prize_n_of_kind_col(yb, col)])

\* The multiplier with the factor of 11 squares taken for 10 squares too
combo_multiplier_mut(n) ==
    CASE n <= 5 -> 1
      [] n = 6 -> 2
      [] n = 7 -> 3
      [] n = 8 -> 5
      [] n = 9 -> 6
      [] n = 10 -> 8
      [] n = 11 -> 8
      [] OTHER -> 10

\* The combo multiplier by the number of squares with a non-zero mask
combo_multiplier(n) ==
    CASE n <= 5 -> 1
      [] n = 6 -> 2
      [] n = 7 -> 3
      [] n = 8 -> 5
      [] n = 9 -> 6
      [] n = 10 -> 7
      [] n = 11 -> 8
      [] OTHER -> 10

calc_prize_base(b, yb) ==
    calc_prize_straight_flush(b, yb) + calc_prize_straight(yb)
    + calc_prize_flush(yb) + calc_prize_n_of_kind(yb)

calc_prize(b, yb) ==
    LET prize == calc_prize_base(b, yb)
    IN  IF prize = 0 THEN 0
        ELSE U16(prize * combo_multiplier(count_nonzero(yb)))

process_yaku_step_mut(b) ==
    LET yb == detect_yaku(b)
        marked == squares_nonzero(yb)
        f == fall(b)
    IN  [board |-> f.board,
         frame |-> U16(72 + 8 * Cardinality(marked) + f.frame),
         prize |-> calc_prize(b, yb),
         marked |-> Cardinality(marked)]

\* process_yaku_step: detect, compute the prize, clear every marked square
\* (8F each, after 72F), settle.  `cleared` is the number of squares cleared.
process_yaku_step(b) ==
    LET yb == detect_yaku(b)
        marked == squares_nonzero(yb)
        cleared == [sq \in Squares |-> IF sq \in marked THEN None ELSE b[sq]]
        f == fall(cleared)
    IN  [board |-> f.board,
         frame |-> U16(72 + 8 * Cardinality(marked) + f.frame),
         prize |-> calc_prize(b, yb),
         marked |-> Cardinality(marked)]

\* process_yaku_chain: steps until one yields prize 0; the frames and prizes
\* of the prize-yielding steps are summed, the board is the one the last
\* (zero-prize) step left.  `steps` counts the prize-yielding steps.
RECURSIVE process_yaku_chain(_)

\* The sums with the frames of the step `cur` left out
chain_add_mut(cur, rest) ==
    [board |-> rest.board,
     frame |-> rest.frame,
     prize |-> U16(cur.prize + rest.prize),
     steps |-> 1 + rest.steps]

\* frame += frame_cur; prize += prize_cur, for the step `cur` and the rest
chain_add(cur, rest) ==
    [board |-> rest.board,
     frame |-> U16(cur.frame + rest.frame),
     prize |-> U16(cur.prize + rest.prize),
     steps |-> 1 + rest.steps]

\* A chain that ends after its first step
chain_after_mut(cur) ==
    IF cur.prize = 0
    THEN [board |-> cur.board, frame |-> 0, prize |-> 0, steps |-> 0]
    ELSE chain_add(cur, [board |-> cur.board, frame |-> 0, prize |-> 0, steps |-> 0])

\* The loop body after the step `cur`: break on prize 0, else go on
chain_after(cur) ==
    IF cur.prize = 0
    THEN [board |-> cur.board, frame |-> 0, prize |-> 0, steps |-> 0]
    ELSE chain_add(cur, process_yaku_chain(cur.board))

process_yaku_chain(b) == chain_after(process_yaku_step(b))

-----------------------------------------------------------------------------
(* Solution  (src/src/solution.rs)                                         *)

PLY_COUNT_MAX == 45

\* Solution::new: 45 three-bit slots, all zero (zero = no move)
SolutionNew == [p \in 0..(PLY_COUNT_MAX - 1) |-> 0]

\* A slot that stores the column index itself
add_move_mut(sol, p, col) == [sol EXCEPT ![p] = col]

\* Solution::add_move: slot `ply` stores Col::to_inner() = column index + 1
add_move(sol, p, col) == [sol EXCEPT ![p] = col + 1]

\* Solution::get_move: the column index stored at `ply`, -1 for no move
get_move(sol, p) == sol[p] - 1

\* Solution::len: the position of the first empty slot
RECURSIVE SolutionLenFrom(_, _)
SolutionLenFrom(sol, p) ==
    IF p >= PLY_COUNT_MAX THEN PLY_COUNT_MAX
    ELSE IF sol[p] = 0 THEN p
    ELSE SolutionLenFrom(sol, p + 1)

solution_len(sol) == SolutionLenFrom(sol, 0)

-----------------------------------------------------------------------------
(* CardPile and Position  (src/src/position.rs)                            *)

\* pop that reads the last card and leaves it on the pile
pile_pop_mut(inner) == inner

\* CardPile: the inner vector; pop takes its LAST element
pile_pop(inner) == SubSeq(inner, 1, Len(inner) - 1)

pile_top(inner) == inner[Len(inner)]

\* push that drops the card
pile_push_mut(inner, card) == inner

pile_push(inner, card) == Append(inner, card)

\* Index<usize>: the card drawn idx-th (0-based) is inner[len - 1 - idx]
pile_at(inner, idx) == inner[Len(inner) - idx]

\* A swap that copies pile[j] over pile[i] and keeps pile[j]
pile_swap_mut(inner, i, j) ==
    [inner EXCEPT ![Len(inner) - i] = inner[Len(inner) - j]]

\* CardPile::swap(i, j)
pile_swap(inner, i, j) ==
    [inner EXCEPT ![Len(inner) - i] = inner[Len(inner) - j],
                  ![Len(inner) - j] = inner[Len(inner) - i]]

\* Card::from_cadillac_value: (suit_index << 4) | rank with suit_index 0..3
from_cadillac_value(value) == Card(1 + (value \div 16), value % 16)

\* CardPile::parse_memory: the dump lists the cards in draw order and the
\* inner vector is its reverse
parse_memory(mem) ==
    [i \in 1..Len(mem) |-> from_cadillac_value(mem[Len(mem) + 1 - i])]

\* is_connected: same suit, or ranks equal / adjacent with the K-A wrap
is_connected(card1, card2) ==
    \/ Suit(card1) = Suit(card2)
    \/ RankPrev(Rank(card1)) = Rank(card2)
    \/ Rank(card1) = Rank(card2)
    \/ RankNext(Rank(card1)) = Rank(card2)

DISCONNECT_K0 == 10

\* while is_connected(card1, pile[k]) { k += 1 }: the k the loop stops at,
\* or -1 when pile[k] indexes past the end (a panic)
RECURSIVE disconnect_k(_, _, _)
disconnect_k(inner, card1, k) ==
    IF k >= Len(inner) THEN -1
    ELSE IF is_connected(card1, pile_at(inner, k)) THEN disconnect_k(inner, card1, k + 1)
    ELSE k

\* disconnect(pile, i, j)
disconnect(inner, i, j) ==
    LET card1 == pile_at(inner, i)
    IN  IF ~is_connected(card1, pile_at(inner, j)) THEN [ok |-> TRUE, pile |-> inner, k |-> 0]
        ELSE LET k == disconnect_k(inner, card1, DISCONNECT_K0)
             IN  IF k < 0 THEN [ok |-> FALSE, pile |-> inner, k |-> k]
                 ELSE [ok |-> TRUE, pile |-> pile_swap(inner, j, k), k |-> k]

DisconnectPairsMut(level) ==
    IF level >= 9
    THEN <<<<0, 1>>, <<1, 2>>, <<2, 3>>, <<3, 4>>, <<4, 5>>, <<1, 5>>>>
    ELSE <<<<0, 1>>, <<1, 2>>, <<2, 3>>, <<3, 4>>, <<4, 5>>>>

\* The disconnect calls of with_level_8_to_10, in program order:
\* (0,1) (1,2) (2,3) (3,4) (4,5), then for level >= 9 (1,5) (3,6)
DisconnectPairs(level) ==
    IF level >= 9
    THEN <<<<0, 1>>, <<1, 2>>, <<2, 3>>, <<3, 4>>, <<4, 5>>, <<1, 5>>, <<3, 6>>>>
    ELSE <<<<0, 1>>, <<1, 2>>, <<2, 3>>, <<3, 4>>, <<4, 5>>>>

RECURSIVE disconnect_pass(_, _, _)
disconnect_pass(inner, pairs, n) ==
    IF n > Len(pairs) THEN [ok |-> TRUE, pile |-> inner]
    ELSE LET d == disconnect(inner, pairs[n][1], pairs[n][2])
         IN  IF ~d.ok THEN [ok |-> FALSE, pile |-> inner]
             ELSE disconnect_pass(d.pile, pairs, n + 1)

\* The same calls, one record per call made: the indices, the pile before and
\* after, and the k of the swap (0 when the call returns at once)
RECURSIVE disconnect_calls(_, _, _)
disconnect_calls(inner, pairs, n) ==
    IF n > Len(pairs) THEN <<>>
    ELSE LET d == disconnect(inner, pairs[n][1], pairs[n][2])
             call == [i |-> pairs[n][1], j |-> pairs[n][2], k |-> d.k, ok |-> d.ok,
                      before |-> inner, after |-> d.pile]
         IN  IF ~d.ok THEN <<call>>
             ELSE <<call>> \o disconnect_calls(d.pile, pairs, n + 1)

LayoutSquaresMut(level) ==
    CASE level <= 4 -> <<>>
      [] level = 5 -> <<Sq(0, 0), Sq(4, 0)>>
      [] level \in 6..7 -> <<Sq(0, 0), Sq(4, 0), Sq(2, 0)>>
      [] level = 8 -> <<Sq(0, 0), Sq(1, 0), Sq(2, 0), Sq(3, 0), Sq(4, 0)>>
      [] OTHER -> <<Sq(0, 0), Sq(1, 0), Sq(2, 0), Sq(3, 0), Sq(4, 0), Sq(3, 1), Sq(1, 1)>>

\* The squares filled by the initial layout, in pop order
LayoutSquares(level) ==
    CASE level <= 4 -> <<>>
      [] level = 5 -> <<Sq(0, 0), Sq(4, 0)>>
      [] level \in 6..7 -> <<Sq(0, 0), Sq(4, 0), Sq(2, 0)>>
      [] level = 8 -> <<Sq(0, 0), Sq(1, 0), Sq(2, 0), Sq(3, 0), Sq(4, 0)>>
      [] OTHER -> <<Sq(0, 0), Sq(1, 0), Sq(2, 0), Sq(3, 0), Sq(4, 0), Sq(1, 1), Sq(3, 1)>>

\* board[sq] = Some(pile.pop().unwrap()) for each layout square in order
RECURSIVE layout_place(_, _, _, _)
layout_place(b, inner, sqs, n) ==
    IF n > Len(sqs) THEN [board |-> b, pile |-> inner]
    ELSE layout_place([b EXCEPT ![sqs[n]] = pile_top(inner)], pile_pop(inner), sqs, n + 1)

\* Position::with_level (levels 1..10); ok = FALSE stands for a panic
with_level(level, inner) ==
    IF Len(inner) # 52 THEN [ok |-> FALSE, board |-> BoardNew, pile |-> inner]
    ELSE IF level <= 7
    THEN LET l == layout_place(BoardNew, inner, LayoutSquares(level), 1)
         IN  [ok |-> TRUE, board |-> l.board, pile |-> l.pile]
    ELSE LET d == disconnect_pass(inner, DisconnectPairs(level), 1)
         IN  IF ~d.ok THEN [ok |-> FALSE, board |-> BoardNew, pile |-> inner]
             ELSE LET l == layout_place(BoardNew, d.pile, LayoutSquares(level), 1)
                  IN  [ok |-> TRUE, board |-> l.board, pile |-> l.pile]

-----------------------------------------------------------------------------
(* State  (src/src/state.rs)                                               *)

StateNew(frame, money, b, sol) ==
    [frame |-> frame, money |-> money, board |-> b, solution |-> sol]

\* The successor that leaves out the frames of the yaku chain
state_after_mut(st, p, col, pt, ch) ==
    StateNew(U16(st.frame + pt.frame),
             U16(st.money + ch.prize),
             ch.board,
             add_move(st.solution, p, col))

\* Self::new(self.frame + frame_put + frame_yaku, self.money + prize, board,
\* self.solution.add_move(ply, col)) for the put result pt and chain result ch
state_after(st, p, col, pt, ch) ==
    StateNew(U16(st.frame + pt.frame + ch.frame),
             U16(st.money + ch.prize),
             ch.board,
             add_move(st.solution, p, col))

\* The successor once the card is put: the full yaku chain on the board
state_after_put(st, p, col, pt) ==
    state_after(st, p, col, pt, process_yaku_chain(pt.board))

\* State::do_move: put, the full yaku chain, the move recorded at `ply`
\* (the caller guarantees the column is not full)
do_move(st, p, card, col) ==
    state_after_put(st, p, col, put(st.board, col, card))

\* The columns State::neighbors visits
NeighborColsMut == 0..3

NeighborCols == Cols

\* State::neighbors: for col in Col::all(), skip a full column, else push
\* the successor: the successors in column order A..E
RECURSIVE neighbors_from(_, _, _, _)

\* The successor of one column: nothing when put returns None
neighbor_of(st, p, col, pt) ==
    IF pt.ok THEN <<state_after_put(st, p, col, pt)>> ELSE <<>>

neighbors_from(st, p, card, col) ==
    IF col \notin NeighborCols THEN <<>>
    ELSE neighbor_of(st, p, col, put(st.board, col, card))
         \o neighbors_from(st, p, card, col + 1)

neighbors(st, p, card) == neighbors_from(st, p, card, 0)

\* State::new_initial
new_initial(level, money, inner) ==
    LET pos == with_level(level, inner)
    IN  [ok |-> pos.ok,
         state |-> StateNew(0, money, pos.board, SolutionNew),
         pile |-> pos.pile]

-----------------------------------------------------------------------------
(* Shared helpers of the properties (independent of the operators above)   *)

Idle == [op |-> "none"]

\* The cards of a column, bottom to top, empty cells skipped
ColCards(b, col) ==
    SelectSeq([i \in 1..5 |-> b[Sq(col, i - 1)]], LAMBDA c : c # None)

\* Number of cards in a column
ColHeight(b, col) == Cardinality({r \in Rows : b[Sq(col, r)] # None})

\* Gravity-settled: no empty cell beneath an occupied cell
ColSettled(b, col) ==
    \A r \in Rows : b[Sq(col, r)] # None => \A q \in 0..r : b[Sq(col, q)] # None

Settled(b) == \A col \in Cols : ColSettled(b, col)

-----------------------------------------------------------------------------
(* SpecBoard: Board::put and Board::fall driven by a caller.               *)
(* A caller builds a board by successive puts (the k-th put drops the k-th *)
(* card of Card::all()), may clear squares (board[sq] = None, as           *)
(* process_yaku_step does) and then calls fall.                            *)

MaxPuts == 6
MaxRemoves == 2
NumBuildCols == 3

\* The columns the caller drops cards into
BuildCols == 0..(NumBuildCols - 1)

BoardInit ==
    /\ pc = "build"
    /\ board = BoardNew
    /\ ply = 0
    /\ res = Idle
    /\ args = [removes |-> 0]
    /\ pile = <<>>
    /\ state = Idle
    /\ beam = <<>>
    /\ stack = <<>>

\* let r = board.put(col, card): the caller's board is left as it was
BoardPut(col) ==
    /\ pc = "build"
    /\ ply < MaxPuts
    /\ LET card == CardAll[ply + 1]
           r == put(board, col, card)
       IN  /\ res' = [op |-> "put", ok |-> r.ok, board |-> r.board, frame |-> r.frame]
           /\ args' = [removes |-> 0, col |-> col, card |-> card, before |-> board]
    /\ pc' = "put"
    /\ UNCHANGED <<board, ply, pile, state, beam, stack>>

\* The caller goes on with the returned board (or with its own on None)
BoardAdopt ==
    /\ pc = "put"
    /\ board' = IF res.ok THEN res.board ELSE board
    /\ ply' = IF res.ok THEN ply + 1 ELSE ply
    /\ pc' = "build"
    /\ res' = Idle
    /\ args' = [removes |-> 0]
    /\ UNCHANGED <<pile, state, beam, stack>>

\* board[sq] = None
BoardRemove(sq) ==
    /\ pc \in {"build", "holes"}
    /\ board[sq] # None
    /\ args.removes < MaxRemoves
    /\ board' = [board EXCEPT ![sq] = None]
    /\ args' = [removes |-> args.removes + 1]
    /\ pc' = "holes"
    /\ UNCHANGED <<ply, res, pile, state, beam, stack>>

\* board.fall(): in place
BoardFall ==
    /\ pc \in {"build", "holes"}
    /\ LET f == fall(board)
       IN  /\ board' = f.board
           /\ res' = [op |-> "fall", frame |-> f.frame]
    /\ args' = [removes |-> args.removes, before |-> board]
    /\ pc' = "fell"
    /\ UNCHANGED <<ply, pile, state, beam, stack>>

BoardNext ==
    \/ \E col \in BuildCols : BoardPut(col)
    \/ BoardAdopt
    \/ \E sq \in Squares : BoardRemove(sq)
    \/ BoardFall

SpecBoard == BoardInit /\ [][BoardNext]_vars

\* C6: after Board::fall, for every board (settled or not), each column's
\* occupied cells form a prefix from row 1 upward, and each column holds
\* the same cards in the same bottom-to-top order as before the call (so
\* no card changes column).
C6_FallSettlesAndPreserves ==
    pc = "fell" =>
        /\ Settled(board)
        /\ \A col \in Cols : ColCards(board, col) = ColCards(args.before, col)

\* C6 witness: fall has acted on an unsettled board with cards in two
\* columns, one of them holding two cards above a gap
C6_Witness ==
    /\ pc = "fell"
    /\ ~Settled(args.before)
    /\ \E c1, c2 \in Cols :
          /\ c1 # c2
          /\ ~ColSettled(args.before, c1)
          /\ ColHeight(board, c1) >= 2
          /\ ColHeight(board, c2) >= 1

\* C7: Board::put(col, card) on a gravity-settled board returns None iff the
\* column already holds 5 cards; otherwise the returned board differs from
\* the input only in the lowest empty cell of the column (height h), which
\* holds the card, and the frame cost is 37 + 16*(4 - h): 101 for an empty
\* column, 37 for height 4.  The input board is not modified.
C7_PutContract ==
    pc = "put" =>
        LET h == ColHeight(args.before, args.col)
        IN  /\ Settled(args.before)
            /\ board = args.before
            /\ res.ok <=> h < 5
            /\ res.ok =>
                  /\ \A sq \in Squares :
                        res.board[sq] = IF sq = Sq(args.col, h) THEN args.card
                                        ELSE args.before[sq]
                  /\ res.frame = 37 + 16 * (4 - h)
                  /\ (h = 0 => res.frame = 101)
                  /\ (h = 4 => res.frame = 37)

\* C7 witness: a put on a full column returned None
C7_Witness ==
    /\ pc = "put"
    /\ ~res.ok
    /\ ColHeight(args.before, args.col) = 5

\* A second reachable case of C7: a put onto a column of height 2 succeeded
C7_WitnessPlaced ==
    /\ pc = "put"
    /\ res.ok
    /\ ColHeight(args.before, args.col) = 2
    /\ res.frame = 69

-----------------------------------------------------------------------------
(* SpecYaku: process_yaku_chain on the boards a caller can build.          *)
(* The caller drops some of its distinct cards into columns (plain         *)
(* Board::put, so every board is gravity-settled) and then runs the chain; *)
(* each iteration of the chain's loop is one step of the model.            *)

NumYakuCards == 6
NumYakuCols == 3

\* The cards the caller holds, in the order they are offered
YakuCardSeq ==
    <<Card(SPADE, 2), Card(SPADE, 3), Card(SPADE, 4), Card(CLUB, 3),
      Card(HEART, 3), Card(DIAMOND, 3), Card(CLUB, 4), Card(SPADE, 6),
      Card(HEART, 4)>>

YakuBuildCols == (5 - NumYakuCols)..4

YakuInit ==
    /\ pc = "build"
    /\ board = BoardNew
    /\ res = Idle
    /\ args = Idle
    /\ ply = 0
    /\ pile = <<>>
    /\ state = Idle
    /\ beam = <<>>
    /\ stack = <<>>

\* Board::put of the next card, without any yaku processing
YakuPut(col) ==
    /\ pc = "build"
    /\ ply < NumYakuCards
    /\ put(board, col, YakuCardSeq[ply + 1]).ok
    /\ board' = put(board, col, YakuCardSeq[ply + 1]).board
    /\ ply' = ply + 1
    /\ UNCHANGED <<pc, res, args, pile, state, beam, stack>>

\* The next card is left out of the board
YakuSkip ==
    /\ pc = "build"
    /\ ply < NumYakuCards
    /\ ply' = ply + 1
    /\ UNCHANGED <<pc, board, res, args, pile, state, beam, stack>>

\* One iteration of process_yaku_chain's loop: a step on the board, then
\* either break (prize 0) or add the step's frame and prize
YakuChainStep ==
    /\ pc \in {"build", "chain"}
    /\ \E cur \in {process_yaku_step(board)} :
       LET frame == IF pc = "build" THEN 0 ELSE res.frame
           prize == IF pc = "build" THEN 0 ELSE res.prize
           steps == IF pc = "build" THEN 0 ELSE res.steps
       IN  /\ board' = cur.board
           /\ pc' = IF cur.prize = 0 THEN "done" ELSE "chain"
           /\ res' = [op |-> "chain",
                      frame |-> IF cur.prize = 0 THEN frame ELSE U16(frame + cur.frame),
                      prize |-> IF cur.prize = 0 THEN prize ELSE U16(prize + cur.prize),
                      steps |-> IF cur.prize = 0 THEN steps ELSE steps + 1,
                      last_prize |-> cur.prize,
                      last_frame |-> cur.frame,
                      last_marked |-> cur.marked,
                      before |-> board]
           /\ args' = IF pc = "build" THEN [op |-> "chain", start |-> board] ELSE args
    /\ UNCHANGED <<ply, pile, state, beam, stack>>

YakuNext ==
    \/ \E col \in YakuBuildCols : YakuPut(col)
    \/ YakuSkip
    \/ YakuChainStep

SpecYaku == YakuInit /\ [][YakuNext]_vars

\* C4: on every gravity-settled board a yaku step returns prize 0 iff
\* detection marks no cell, and process_yaku_chain returns prize 0 iff its
\* first step (hence any step) detected no yaku; a marked cell always gives
\* a strictly positive prize, also when marks come from crossing lines.
C4_PrizeZeroIffNoYaku ==
    pc \in {"chain", "done"} =>
        /\ Settled(res.before)
        /\ res.last_prize = 0 <=> res.last_marked = 0
        /\ res.last_marked = count_nonzero(detect_yaku(res.before))
        /\ pc = "done" =>
              /\ res.prize = 0 <=> count_nonzero(detect_yaku(args.start)) = 0
              /\ res.prize = process_yaku_chain(args.start).prize

\* C4 witness: a step whose marks come from a row and a column that cross
\* (a square marked by a row yaku and by a column yaku) got a prize
C4_Witness ==
    /\ pc = "chain"
    /\ res.last_prize > 0
    /\ \E row \in Rows, col \in Cols :
          /\ Sq(col, row) \in detect_straight_row(res.before, row)
          /\ Sq(col, row) \in detect_n_of_kind_col(res.before, col)

\* C5: process_yaku_chain terminates on every gravity-settled board: every
\* prize-yielding step removes at least 3 cards from the board, so there are
\* at most 8 prize-yielding steps before the zero-prize step that ends the loop.
C5_ChainTerminates ==
    pc \in {"chain", "done"} =>
        /\ res.last_prize > 0 => card_count(res.before) - card_count(board) >= 3
        /\ res.last_prize = 0 => pc = "done"
        /\ 3 * res.steps <= card_count(args.start) - card_count(board)
        /\ res.steps <= 8

\* C5 witness: a chain of two prize-yielding steps has ended
C5_Witness ==
    /\ pc = "done"
    /\ res.steps >= 2

-----------------------------------------------------------------------------
(* SpecLayout: Position::with_level on initial decks.                      *)
(* A deck is dealt by naming its first cards (distinct cards of a small    *)
(* universe, in draw order); the rest of the 52 cards follow in Card::all  *)
(* order.  The cheat deck of the repository's tests is a further input.    *)

NumFrontCards == 7
MaxFront == 7

\* H3 HJ C6 D8 CK DA (then S9, ...)
FrontCardSeq ==
    <<Card(HEART, 3), Card(HEART, RANK_J), Card(CLUB, 6), Card(DIAMOND, 8),
      Card(CLUB, RANK_K), Card(DIAMOND, RANK_A), Card(SPADE, 9), Card(HEART, 7)>>

FrontCards == {FrontCardSeq[i] : i \in 1..NumFrontCards}

LayoutLevels == 8..10

SeqRange(s) == {s[i] : i \in 1..Len(s)}

\* CardPile::new_initial of the array whose draw order is `front` followed by
\* the other cards in Card::all order (the inner vector is drawn from its end)
DeckOf(front) ==
    LET draw == front \o SelectSeq(CardAll, LAMBDA c : c \notin SeqRange(front))
    IN  [i \in 1..Len(draw) |-> draw[Len(draw) + 1 - i]]

\* CHEAT_PILE_MEMORY, byte by byte
CHEAT_PILE_MEMORY ==
    <<26, 43, 59, 42, 10, 25, 44, 60, 41, 9, 23, 22, 13, 29, 45, 61, 17, 1,
      33, 49, 40, 8, 24, 21, 4, 58, 28, 12, 20, 5, 55, 27, 11, 50, 51, 53,
      54, 35, 6, 19, 3, 34, 7, 18, 2, 52, 39, 38, 37, 36, 35, 34>>

cheat_pile == parse_memory(CHEAT_PILE_MEMORY)

LayoutInit ==
    /\ pc = "deal"
    /\ args = [front |-> <<>>]
    /\ board = BoardNew
    /\ pile = <<>>
    /\ res = Idle
    /\ ply = 0
    /\ state = Idle
    /\ beam = <<>>
    /\ stack = <<>>

\* The caller names the next card of the deck
LayoutDeal(card) ==
    /\ pc = "deal"
    /\ Len(args.front) < MaxFront
    /\ card \notin SeqRange(args.front)
    /\ args' = [front |-> Append(args.front, card)]
    /\ UNCHANGED <<pc, board, pile, res, ply, state, beam, stack>>

\* Position::with_level(level, deck)
LayoutRun(level, deck) ==
    \E pos \in {with_level(level, deck)} :
        /\ pc' = "laid"
        /\ args' = [level |-> level, deck |-> deck]
        /\ res' = [op |-> "with_level", ok |-> pos.ok,
                   calls |-> IF level >= 8 /\ Len(deck) = 52
                             THEN disconnect_calls(deck, DisconnectPairs(level), 1)
                             ELSE <<>>]
        /\ board' = pos.board
        /\ pile' = pos.pile
        /\ UNCHANGED <<ply, state, beam, stack>>

LayoutWithLevel(level) ==
    /\ pc = "deal"
    /\ LayoutRun(level, DeckOf(args.front))

LayoutCheat(level) ==
    /\ pc = "deal"
    /\ args.front = <<>>
    /\ LayoutRun(level, cheat_pile)

\* S7 S6, eight cards not connected to S7, then the other twenty cards that
\* are: the search of the first disconnect call passes all of them
CrowdedFront ==
    <<Card(SPADE, 7), Card(SPADE, 6),
      Card(HEART, 3), Card(CLUB, RANK_J), Card(DIAMOND, RANK_A), Card(HEART, 10),
      Card(CLUB, 4), Card(DIAMOND, RANK_Q), Card(HEART, RANK_K), Card(CLUB, 2),
      Card(SPADE, RANK_A), Card(SPADE, 2), Card(SPADE, 3), Card(SPADE, 4),
      Card(SPADE, 5), Card(SPADE, 8), Card(SPADE, 9), Card(SPADE, 10),
      Card(SPADE, RANK_J), Card(SPADE, RANK_Q), Card(SPADE, RANK_K),
      Card(CLUB, 6), Card(CLUB, 7), Card(CLUB, 8),
      Card(HEART, 6), Card(HEART, 7), Card(HEART, 8),
      Card(DIAMOND, 6), Card(DIAMOND, 7), Card(DIAMOND, 8)>>

LayoutCrowded(level) ==
    /\ pc = "deal"
    /\ args.front = <<>>
    /\ LayoutRun(level, DeckOf(CrowdedFront))

LayoutNext ==
    \/ \E card \in FrontCards : LayoutDeal(card)
    \/ \E level \in LayoutLevels : LayoutWithLevel(level)
    \/ \E level \in LayoutLevels : LayoutCheat(level)
    \/ \E level \in LayoutLevels : LayoutCrowded(level)

SpecLayout == LayoutInit /\ [][LayoutNext]_vars

\* "Connected" as the game defines it: same suit, or ranks equal or adjacent
\* on the cycle A 2 ... K A
Connected(c1, c2) ==
    \/ Suit(c1) = Suit(c2)
    \/ (Rank(c1) - Rank(c2)) % 13 \in {0, 1, 12}

DeckDistinct(deck) == Cardinality(SeqRange(deck)) = Len(deck)

\* The deck after with_level, read back from its result in draw order: the
\* cards on the layout squares in fill order, then the pile
LaidDeck(idx) ==
    LET sqs == LayoutSquares(args.level)
    IN  IF idx < Len(sqs) THEN board[sqs[idx + 1]]
        ELSE pile_at(pile, idx - Len(sqs))

LaidDisconnected(i, j) == ~Connected(LaidDeck(i), LaidDeck(j))

\* C8: for level 9 and 10 and any 52-card initial deck, with_level yields a
\* board whose occupied cells are exactly A1 B1 C1 D1 E1 B2 D2, filled in
\* that order with the first 7 cards of the disconnect-adjusted deck, and a
\* pile of exactly 45 cards: the rest of the adjusted deck in draw order.
C8_Level9Layout ==
    pc = "laid" /\ args.level >= 9 =>
        /\ Len(args.deck) = 52
        /\ DeckDistinct(args.deck) => res.ok
        /\ res.ok =>
            \A adj \in {disconnect_pass(args.deck, DisconnectPairs(args.level), 1).pile} :
                /\ {sq \in Squares : board[sq] # None}
                     = {Sq(0, 0), Sq(1, 0), Sq(2, 0), Sq(3, 0), Sq(4, 0), Sq(1, 1), Sq(3, 1)}
                /\ \A i \in 0..4 : board[Sq(i, 0)] = pile_at(adj, i)
                /\ board[Sq(1, 1)] = pile_at(adj, 5)
                /\ board[Sq(3, 1)] = pile_at(adj, 6)
                /\ Len(pile) = 45
                /\ \A idx \in 0..44 : pile_at(pile, idx) = pile_at(adj, idx + 7)

\* C8 witness: the level-9 layout of the cheat deck (B2 = C6, D2 = HQ, the
\* pass having replaced the deck's second card HJ by SK)
C8_Witness ==
    /\ pc = "laid"
    /\ args.level = 9
    /\ args.deck = cheat_pile
    /\ res.ok
    /\ board[Sq(1, 0)] = Card(SPADE, RANK_K)
    /\ board[Sq(1, 1)] = Card(CLUB, 6)
    /\ board[Sq(3, 1)] = Card(HEART, RANK_Q)
    /\ Len(pile) = 45

\* C9 as stated: after the level-9/10 disconnect pass on a deck of 52
\* distinct cards, deck[i] and deck[i+1] are not connected for i = 0..4, and
\* (deck[1], deck[5]) and (deck[3], deck[6]) are not connected.
C9_AllPairsDisconnected ==
    pc = "laid" /\ args.level >= 9 /\ DeckDistinct(args.deck) =>
        /\ \A i \in 0..4 : LaidDisconnected(i, i + 1)
        /\ LaidDisconnected(1, 5)
        /\ LaidDisconnected(3, 6)

\* C9 (amended): after the pass on a deck of 52 distinct cards the pairs
\* (0,1) (1,2) (2,3) (3,4) (1,5) (3,6) are not connected; (4,5) is not
\* connected as long as the later call for (1,5) did not replace deck[5].
C9_DisconnectedPairs ==
    pc = "laid" /\ args.level >= 9 /\ DeckDistinct(args.deck) =>
        /\ res.ok
        /\ \A i \in 0..3 : LaidDisconnected(i, i + 1)
        /\ LaidDisconnected(1, 5)
        /\ LaidDisconnected(3, 6)
        /\ \A after5 \in {disconnect_pass(args.deck, DisconnectPairs(8), 1).pile} :
              pile_at(after5, 5) = LaidDeck(5) => LaidDisconnected(4, 5)

\* C9 witness: a pass in which the call for (1,5) replaced deck[5] and the
\* call for (3,6) replaced deck[6]
C9_Witness ==
    /\ pc = "laid"
    /\ args.level >= 9
    /\ DeckDistinct(args.deck)
    /\ \E after5 \in {disconnect_pass(args.deck, DisconnectPairs(8), 1).pile} :
          /\ pile_at(after5, 5) # LaidDeck(5)
          /\ pile_at(after5, 6) # LaidDeck(6)

-----------------------------------------------------------------------------
(* Endgame  (src/src/endgame.rs)                                           *)

ENDGAME_PLY_COUNT_MAX == 10

state_is_ok_mut(level, st) ==
    card_count(st.board) = 0

\* state_is_ok: money_min is 200 at level 9 and 250 at level 10
state_is_ok(level, st) ==
    LET money_min == IF level = 9 THEN 200 ELSE 250
    IN  st.money >= money_min /\ card_count(st.board) = 0

dfs_prune_mut(st, frame_best) == st.frame > frame_best

\* The pruning test at the head of dfs
dfs_prune(st, frame_best) == st.frame >= frame_best

-----------------------------------------------------------------------------
(* SpecEndgame: solve_endgame on the candidates a game can hand to it.     *)
(* A short deck is played from the empty board (pop a card, State::do_move *)
(* on a column, as the midgame and a replay do) until at most              *)
(* MaxEndgameLen cards remain; solve_endgame then runs on the state and    *)
(* the remaining pile.  Each call of dfs is a frame of `stack`; its        *)
(* actions are the branches of dfs's body.                                 *)

NumEndgameDecks == 3
MaxEndgameLen == 3
NumEndgameCols == 3

\* The decks, in draw order
EndgameDecks ==
    <<<<Card(SPADE, 3), Card(SPADE, 2), Card(SPADE, 4)>>,
      <<Card(SPADE, 2), Card(SPADE, 3), Card(SPADE, 4), Card(CLUB, 3), Card(HEART, 3)>>,
      <<Card(CLUB, 3), Card(SPADE, 2), Card(SPADE, 3), Card(SPADE, 4),
        Card(HEART, 3), Card(DIAMOND, 3)>>,
      <<Card(HEART, 3), Card(SPADE, 2), Card(CLUB, 3), Card(SPADE, 4), Card(DIAMOND, 3)>>>>

EndgameLevels == 9..10

EndgameMoneys == {199, 249}

EndgameBounds == {400, 65535}

EndgameBuildCols == (5 - NumEndgameCols)..4

EndgameInit ==
    /\ pc = "setup"
    /\ \E d \in 1..NumEndgameDecks, level \in EndgameLevels,
          money \in EndgameMoneys, bound \in EndgameBounds :
          /\ args = [deck |-> EndgameDecks[d], level |-> level, bound |-> bound]
          /\ pile = [i \in 1..Len(EndgameDecks[d]) |->
                        EndgameDecks[d][Len(EndgameDecks[d]) + 1 - i]]
          /\ state = StateNew(0, money, BoardNew, SolutionNew)
    /\ ply = 0
    /\ res = Idle
    /\ stack = <<>>
    /\ board = BoardNew
    /\ beam = <<>>

\* One ply before the endgame: pop the card, State::do_move on a column
EndgamePlay(col) ==
    /\ pc = "setup"
    /\ pile # <<>>
    /\ put(state.board, col, pile_top(pile)).ok
    /\ state' = do_move(state, PLY_COUNT_MAX - Len(args.deck) + ply, pile_top(pile), col)
    /\ pile' = pile_pop(pile)
    /\ ply' = ply + 1
    /\ UNCHANGED <<pc, board, res, beam, stack, args>>

\* solve_endgame(level, pile, state_ini, frame_best): the asserts, then the
\* outermost call of dfs
EndgameCall ==
    /\ pc = "setup"
    /\ args.level >= 9
    /\ Len(pile) <= ENDGAME_PLY_COUNT_MAX
    /\ Len(pile) <= MaxEndgameLen
    /\ pc' = "dfs"
    /\ stack' = <<[at |-> "enter", state |-> state, pile_in |-> pile]>>
    /\ res' = [op |-> "solve_endgame", frame_best |-> args.bound, emitted |-> <<>>]
    /\ args' = [deck |-> args.deck, level |-> args.level, bound |-> args.bound,
                state_ini |-> state, pile |-> pile]
    /\ UNCHANGED <<board, pile, state, beam, ply>>

DfsTop == stack[Len(stack)]

\* return from the innermost call of dfs (pile_in of a call is the pile it
\* was entered with)
DfsPop ==
    /\ stack' = SubSeq(stack, 1, Len(stack) - 1)
    /\ pc' = IF Len(stack) = 1 THEN "returned" ELSE "dfs"

\* if state.frame() >= *frame_best { return; }
DfsPrune ==
    /\ pc = "dfs"
    /\ DfsTop.at = "enter"
    /\ dfs_prune(DfsTop.state, res.frame_best)
    /\ DfsPop
    /\ UNCHANGED <<board, pile, state, res, beam, ply, args>>

\* The pile is empty and state_is_ok: frame_best is lowered, the state printed
DfsEmit ==
    /\ pc = "dfs"
    /\ DfsTop.at = "enter"
    /\ ~dfs_prune(DfsTop.state, res.frame_best)
    /\ pile = <<>>
    /\ state_is_ok(args.level, DfsTop.state)
    /\ res' = [op |-> "solve_endgame",
               frame_best |-> DfsTop.state.frame,
               emitted |-> Append(res.emitted,
                             [frame |-> DfsTop.state.frame,
                              money |-> DfsTop.state.money,
                              solution |-> DfsTop.state.solution,
                              card_count |-> card_count(DfsTop.state.board),
                              pile_len |-> Len(pile),
                              frame_best |-> res.frame_best])]
    /\ DfsPop
    /\ UNCHANGED <<board, pile, state, beam, ply, args>>

\* The pile is empty and the state is not ok
DfsReject ==
    /\ pc = "dfs"
    /\ DfsTop.at = "enter"
    /\ ~dfs_prune(DfsTop.state, res.frame_best)
    /\ pile = <<>>
    /\ ~state_is_ok(args.level, DfsTop.state)
    /\ DfsPop
    /\ UNCHANGED <<board, pile, state, res, beam, ply, args>>

\* pile.pop() gave a card: the neighbors are computed for the for loop
DfsExpand ==
    /\ pc = "dfs"
    /\ DfsTop.at = "enter"
    /\ ~dfs_prune(DfsTop.state, res.frame_best)
    /\ pile # <<>>
    /\ pile' = pile_pop(pile)
    /\ \E nbs \in {neighbors(DfsTop.state, PLY_COUNT_MAX - 1 - (Len(pile) - 1), pile_top(pile))} :
          stack' = [stack EXCEPT ![Len(stack)] =
                       [at |-> "loop", state |-> DfsTop.state, pile_in |-> DfsTop.pile_in,
                        card |-> pile_top(pile), nbs |-> nbs, i |-> 1]]
    /\ UNCHANGED <<pc, board, state, res, beam, ply, args>>

\* for neighbor in ...: the recursive call on the next neighbor
DfsDescend ==
    /\ pc = "dfs"
    /\ DfsTop.at = "loop"
    /\ DfsTop.i <= Len(DfsTop.nbs)
    /\ stack' = Append([stack EXCEPT ![Len(stack)].i = DfsTop.i + 1],
                       [at |-> "enter", state |-> DfsTop.nbs[DfsTop.i], pile_in |-> pile])
    /\ UNCHANGED <<pc, board, pile, state, res, beam, ply, args>>

\* The loop is over: pile.push(card), return
DfsReturn ==
    /\ pc = "dfs"
    /\ DfsTop.at = "loop"
    /\ DfsTop.i > Len(DfsTop.nbs)
    /\ pile' = pile_push(pile, DfsTop.card)
    /\ DfsPop
    /\ UNCHANGED <<board, state, res, beam, ply, args>>

EndgameNext ==
    \/ \E col \in EndgameBuildCols : EndgamePlay(col)
    \/ EndgameCall
    \/ DfsPrune
    \/ DfsEmit
    \/ DfsReject
    \/ DfsExpand
    \/ DfsDescend
    \/ DfsReturn

SpecEndgame == EndgameInit /\ [][EndgameNext]_vars

\* The money threshold of a level
Threshold(level) == IF level = 9 THEN 200 ELSE 250

\* Every state a complete placement of the pile can end in: each card in
\* turn goes on any column that is not full
RECURSIVE AllTerminals(_, _)
AllTerminals(st, inner) ==
    IF inner = <<>> THEN {st}
    ELSE UNION {AllTerminals(nx, pile_pop(inner)) :
                nx \in {do_move(st, PLY_COUNT_MAX - Len(inner), pile_top(inner), col) :
                           col \in {c \in Cols : ColHeight(st.board, c) < 5}}}

\* The terminal states that qualify: empty board, enough money, under the bound
Qualifying ==
    {t \in AllTerminals(args.state_ini, args.pile) :
        /\ card_count(t.board) = 0
        /\ t.money >= Threshold(args.level)
        /\ t.frame < args.bound}

\* C1: a state is emitted only when the pile is empty, its board holds 0
\* cards, its money is >= the level threshold (200 at level 9, 250 at level
\* 10) and its frame is strictly less than the frame_best current at that
\* moment, which is initially the caller-supplied bound.
C1_EmitOnlyQualifying ==
    pc \in {"dfs", "returned"} =>
        \A i \in 1..Len(res.emitted) :
            /\ res.emitted[i].pile_len = 0
            /\ res.emitted[i].card_count = 0
            /\ res.emitted[i].money >= Threshold(args.level)
            /\ res.emitted[i].frame < res.emitted[i].frame_best
            /\ i = 1 => res.emitted[i].frame_best = args.bound

\* C1 witness: a level-10 call that emitted although some complete placement
\* clears the board with too little money
C1_Witness ==
    /\ pc = "returned"
    /\ args.level = 10
    /\ Len(res.emitted) >= 1
    /\ \E t \in AllTerminals(args.state_ini, args.pile) :
          card_count(t.board) = 0 /\ t.money < 250

\* C2: within one solve_endgame call every emitted solution has strictly
\* fewer frames than the previously emitted one, and than the initial bound.
C2_EmittedFramesDecrease ==
    pc \in {"dfs", "returned"} =>
        /\ \A i \in 1..Len(res.emitted) : res.emitted[i].frame < args.bound
        /\ \A i, j \in 1..Len(res.emitted) :
              i < j => res.emitted[j].frame < res.emitted[i].frame
        /\ res.emitted # <<>> => res.frame_best = res.emitted[Len(res.emitted)].frame

\* C2 witness: a call that emitted three solutions
C2_Witness ==
    /\ pc = "returned"
    /\ Len(res.emitted) >= 3

\* C3: when solve_endgame returns, the last emitted frame is the minimum
\* frame over all complete placements of the pile that end with an empty
\* board, money >= threshold and frame < the initial bound; nothing is
\* emitted iff no such placement exists.
C3_EndgameExact ==
    pc = "returned" =>
        \A q \in {Qualifying} :
            /\ q = {} <=> res.emitted = <<>>
            /\ q # {} =>
                  /\ \E t \in q : t.frame = res.emitted[Len(res.emitted)].frame
                  /\ \A t \in q : t.frame >= res.emitted[Len(res.emitted)].frame

\* C3 witness: a call with three cards left whose qualifying placements
\* differ in frame, the best one using the last column
C3_Witness ==
    /\ pc = "returned"
    /\ Len(args.pile) = 3
    /\ res.emitted # <<>>
    /\ \E t \in Qualifying : t.frame > res.emitted[Len(res.emitted)].frame
    /\ get_move(res.emitted[Len(res.emitted)].solution, PLY_COUNT_MAX - 1) = 4

-----------------------------------------------------------------------------
(* Midgame  (src/src/midgame.rs)                                           *)

BEAM_WIDTH_MAX == 10000000

\* Ord of Board (derived): lexicographic over the 25 cells in index order,
\* None before every card, cards by their inner value
board_lt(b1, b2) ==
    \E i \in Squares : b1[i] < b2[i] /\ \A j \in 0..(i - 1) : b1[j] = b2[j]

state_key_le_mut(lhs, rhs) ==
    \/ lhs.frame < rhs.frame
    \/ lhs.frame = rhs.frame /\ ~board_lt(rhs.board, lhs.board)

\* (lhs.board(), lhs.frame()).cmp(&(rhs.board(), rhs.frame())) is not Greater
state_key_le(lhs, rhs) ==
    \/ board_lt(lhs.board, rhs.board)
    \/ lhs.board = rhs.board /\ lhs.frame <= rhs.frame

\* x inserted into the sorted sequence, behind the elements not greater
RECURSIVE sort_insert(_, _, _)
sort_insert(sorted, x, i) ==
    IF i > Len(sorted) THEN Append(sorted, x)
    ELSE IF state_key_le(sorted[i], x) THEN sort_insert(sorted, x, i + 1)
    ELSE SubSeq(sorted, 1, i - 1) \o <<x>> \o SubSeq(sorted, i, Len(sorted))

RECURSIVE sort_from(_, _, _)
sort_from(seq, i, acc) ==
    IF i > Len(seq) THEN acc
    ELSE sort_from(seq, i + 1, sort_insert(acc, seq[i], 1))

\* beam_nxt.sort_unstable_by(...): one sorted order (ties in input order)
sort_by_board_frame(seq) == sort_from(seq, 1, <<>>)

\* One step of dedup_by: the element is dropped when its board equals the
\* board of the last element kept
dedup_push(acc, x) ==
    IF acc # <<>> /\ acc[Len(acc)].board = x.board THEN acc ELSE Append(acc, x)

RECURSIVE dedup_from(_, _, _)
dedup_from(seq, i, acc) ==
    IF i > Len(seq) THEN acc
    ELSE dedup_from(seq, i + 1, dedup_push(acc, seq[i]))

\* beam_nxt.dedup_by(|a, b| a.board() == b.board())
dedup_by_board(seq) == dedup_from(seq, 1, <<>>)

\* The sort is unstable: among the states of equal (board, frame) any may
\* come first and so survive the dedup.  All the sequences the sort and the
\* dedup can leave, given one of them
RECURSIVE dedup_outcomes(_, _, _)
dedup_outcomes(all, kept, i) ==
    IF i > Len(kept) THEN {<<>>}
    ELSE {<<x>> \o rest :
            x \in {s \in {all[k] : k \in 1..Len(all)} :
                      s.board = kept[i].board /\ s.frame = kept[i].frame},
            rest \in dedup_outcomes(all, kept, i + 1)}

\* for state in beam.drain(..) { beam_nxt.extend(state.neighbors(ply, card)) }
RECURSIVE expand_from(_, _, _, _)
expand_from(bm, p, card, i) ==
    IF i > Len(bm) THEN <<>>
    ELSE neighbors(bm[i], p, card) \o expand_from(bm, p, card, i + 1)

\* The elements of seq at the indices in keep, in order
RECURSIVE pick_from(_, _, _)
pick_from(seq, keep, i) ==
    IF i > Len(seq) THEN <<>>
    ELSE (IF i \in keep THEN <<seq[i]>> ELSE <<>>) \o pick_from(seq, keep, i + 1)

\* A cut that lets one state more than beam_width through
truncate_outcomes_mut(seq, beam_width) ==
    IF Len(seq) > beam_width + 1
    THEN {pick_from(seq, keep, 1) :
            keep \in {k \in SUBSET (1..Len(seq)) : Cardinality(k) = beam_width}}
    ELSE {seq}

\* select_nth_unstable_by_key + truncate(beam_width): the scores carry a
\* random jitter, so any beam_width of the states may be the ones kept;
\* nothing is dropped when there are at most beam_width states
truncate_outcomes(seq, beam_width) ==
    IF Len(seq) > beam_width
    THEN {pick_from(seq, keep, 1) :
            keep \in {k \in SUBSET (1..Len(seq)) : Cardinality(k) = beam_width}}
    ELSE {seq}

\* beam.sort_unstable_by_key(|state| Reverse(state.money())): the orders with
\* non-increasing money
sort_by_money_outcomes(seq) ==
    {[i \in 1..Len(seq) |-> seq[f[i]]] :
        f \in {g \in [1..Len(seq) -> 1..Len(seq)] :
                 /\ \A i, j \in 1..Len(seq) : i # j => g[i] # g[j]
                 /\ \A i \in 1..(Len(seq) - 1) : seq[g[i]].money >= seq[g[i + 1]].money}}

-----------------------------------------------------------------------------
(* SpecMidgame: solve_midgame on initial decks, a ply of the beam search   *)
(* per step.                                                               *)

NumMidgameDecks == 2
MaxPlyCount == 3
MaxBeamWidth == 2
WideBeamWidth == 5

\* The beam widths tried with a ply count: up to WideBeamWidth (the five
\* successors of the initial state fit the beam) for a single ply, up to
\* MaxBeamWidth for more plies
MidgameBeamWidths(ply_count) ==
    IF ply_count = 1 THEN 1..WideBeamWidth ELSE 1..MaxBeamWidth

\* The initial decks: one dealt H3 C6 HJ D8 CK S9 H5 and then Card::all
\* order (SA S2 S3 ... are drawn first), the cheat deck, the deck in
\* Card::all order
MidgameDecks ==
    <<DeckOf(<<Card(HEART, 3), Card(CLUB, 6), Card(HEART, RANK_J), Card(DIAMOND, 8),
               Card(CLUB, RANK_K), Card(SPADE, 9), Card(HEART, 5)>>),
      cheat_pile,
      DeckOf(<<>>)>>

MidgameLevels == 9..10

MidgameInit ==
    /\ pc = "start"
    /\ \E d \in 1..NumMidgameDecks, level \in MidgameLevels,
          ply_count \in 1..MaxPlyCount :
         \E beam_width \in MidgameBeamWidths(ply_count) :
          /\ args = [level |-> level, money |-> 0, deck |-> MidgameDecks[d],
                     ply_count |-> ply_count, beam_width |-> beam_width]
          /\ pile = MidgameDecks[d]
    /\ beam = <<>>
    /\ ply = 0
    /\ res = Idle
    /\ state = Idle
    /\ stack = <<>>
    /\ board = BoardNew

\* solve_midgame up to the loop: the asserts, State::new_initial, the beam
\* holding the initial state
MidgameBegin ==
    /\ pc = "start"
    /\ args.ply_count <= PLY_COUNT_MAX
    /\ args.beam_width <= BEAM_WIDTH_MAX
    /\ args.level \in {9, 10}
    /\ \E ini \in {new_initial(args.level, args.money, pile)} :
          /\ ini.ok
          /\ beam' = <<ini.state>>
          /\ pile' = ini.pile
    /\ pc' = "loop"
    /\ res' = [op |-> "begin"]
    /\ UNCHANGED <<board, state, stack, ply, args>>

\* One iteration of the ply loop: pop the card, expand the beam, sort and
\* dedup, cut to beam_width, move the result into the beam
MidgamePly ==
    /\ pc = "loop"
    /\ ply < args.ply_count
    /\ pile' = pile_pop(pile)
    /\ \E nxt \in {expand_from(beam, ply, pile_top(pile), 1)} :
       \E dd \in dedup_outcomes(nxt, dedup_by_board(sort_by_board_frame(nxt)), 1) :
       \E kept \in truncate_outcomes(dd, args.beam_width) :
          /\ beam' = kept
          /\ res' = [op |-> "ply", expanded |-> nxt, dedup |-> dd]
    /\ ply' = ply + 1
    /\ UNCHANGED <<pc, board, state, stack, args>>

\* After the loop: the beam sorted by money, descending, and returned with
\* the pile
MidgameReturn ==
    /\ pc = "loop"
    /\ ply = args.ply_count
    /\ \E out \in sort_by_money_outcomes(beam) : beam' = out
    /\ pc' = "returned"
    /\ res' = [op |-> "return"]
    /\ UNCHANGED <<board, pile, state, stack, ply, args>>

MidgameNext ==
    \/ MidgameBegin
    \/ MidgamePly
    \/ MidgameReturn

SpecMidgame == MidgameInit /\ [][MidgameNext]_vars

\* C10: after the dedup step of every ply no two states kept have equal
\* boards (in the deduplicated list and so in the beam), and for each board
\* among the ply's expansions the state kept is an expansion with that board
\* whose frame is the minimum over the expansions with that board.
C10_DedupKeepsMinFrame ==
    res.op = "ply" =>
        /\ \A i, j \in 1..Len(res.dedup) :
              i # j => res.dedup[i].board # res.dedup[j].board
        /\ \A k \in 1..Len(res.dedup) :
              \E e \in 1..Len(res.expanded) : res.expanded[e] = res.dedup[k]
        /\ \A e \in 1..Len(res.expanded) :
              \E k \in 1..Len(res.dedup) :
                  /\ res.dedup[k].board = res.expanded[e].board
                  /\ res.dedup[k].frame <= res.expanded[e].frame
        /\ \A i, j \in 1..Len(beam) : i # j => beam[i].board # beam[j].board
        /\ \A i \in 1..Len(beam) : \E k \in 1..Len(res.dedup) : beam[i] = res.dedup[k]

\* C10 witness: a ply two of whose expansions have the same board and
\* different frames
C10_Witness ==
    /\ res.op = "ply"
    /\ \E i, j \in 1..Len(res.expanded) :
          /\ res.expanded[i].board = res.expanded[j].board
          /\ res.expanded[i].frame < res.expanded[j].frame

-----------------------------------------------------------------------------
(* solve_midgame with its random number generator: the generator is a      *)
(* value seeded from rng_seed and threaded through the evaluations.  The   *)
(* generator itself (SmallRng) is a library type: it is modelled by a      *)
(* 16-bit linear congruential generator, which like SmallRng is a          *)
(* function of its state alone.                                            *)

\* SmallRng::seed_from_u64(rng_seed) replaced by a generator that does not
\* start from the seed: it continues from the generator state left behind
seed_from_u64_mut(rng_seed) == res.rng

\* SmallRng::seed_from_u64(rng_seed): the initial generator state
seed_from_u64(rng_seed) == U16(rng_seed * 40503 + 1)

\* One step of the generator
rng_next(rng) == U16(rng * 25173 + 13849)

\* rng.gen_range(0.0..hi): the drawn value, scaled to an integer below hi,
\* and the advanced generator
gen_range(rng, hi) == [value |-> (rng_next(rng) * hi) \div 65536, rng |-> rng_next(rng)]

\* The range of value_rand at a ply
eval_rand_range(p) == IF p <= 20 THEN 300 ELSE IF p <= 30 THEN 200 ELSE IF p <= 35 THEN 100 ELSE 50

\* value_card_count at a ply
eval_card_count(p, st) == IF p <= 30 THEN 0 ELSE -50 * card_count(st.board)

eval_sum(p, st, draw) ==
    [value |-> (-st.frame) + eval_card_count(p, st) + draw.value, rng |-> draw.rng]

\* eval_level9: value_frame + value_card_count + value_rand, and the
\* advanced generator
eval_level9(rng, p, st) == eval_sum(p, st, gen_range(rng, eval_rand_range(p)))

\* eval_level10: the same evaluation
eval_level10(rng, p, st) == eval_level9(rng, p, st)

\* f_eval, chosen by the level
f_eval(level, rng, p, st) ==
    IF level = 9 THEN eval_level9(rng, p, st) ELSE eval_level10(rng, p, st)

key_less_second(ex, ey) == [lt |-> ex.value > ey.value, rng |-> ey.rng]

key_less_first(level, p, y, ex) == key_less_second(ex, f_eval(level, ex.rng, p, y))

\* The comparison select_nth_unstable_by_key makes between two states: the
\* key Reverse(f_eval(&mut rng, ply, state)) is evaluated for the left state
\* and then for the right one, each evaluation drawing from the generator
key_less(level, rng, p, x, y) == key_less_first(level, p, y, f_eval(level, rng, p, x))

RECURSIVE select_sift(_, _, _, _, _, _)
select_sift_cmp(v, x, j, level, p, c) ==
    IF c.lt THEN select_sift(v, x, j - 1, c.rng, level, p)
    ELSE [v |-> SubSeq(v, 1, j) \o <<x>> \o SubSeq(v, j + 1, Len(v)), rng |-> c.rng]

\* The insertion of x into the ordered prefix v, comparing from its tail
select_sift(v, x, j, rng, level, p) ==
    IF j = 0 THEN [v |-> <<x>> \o v, rng |-> rng]
    ELSE select_sift_cmp(v, x, j, level, p, key_less(level, rng, p, x, v[j]))

RECURSIVE select_from(_, _, _, _, _)
select_from_next(seq, i, level, p, r) == select_from(seq, i + 1, r, level, p)

select_from(seq, i, r, level, p) ==
    IF i > Len(seq) THEN r
    ELSE select_from_next(seq, i, level, p,
                          select_sift(r.v, seq[i], Len(r.v), r.rng, level, p))

\* beam_nxt.select_nth_unstable_by_key(beam_width, ...): the library orders
\* a short slice by insertion, a comparison at a time
select_nth_unstable_by_key(seq, rng, level, p) ==
    select_from(seq, 2, [v |-> <<seq[1]>>, rng |-> rng], level, p)

truncate_to(r, beam_width) == [v |-> SubSeq(r.v, 1, beam_width), rng |-> r.rng, cut |-> TRUE]

\* if beam_nxt.len() > beam_width { select_nth...; truncate(beam_width) }
truncate_beam(seq, beam_width, rng, level, p) ==
    IF Len(seq) > beam_width
    THEN truncate_to(select_nth_unstable_by_key(seq, rng, level, p), beam_width)
    ELSE [v |-> seq, rng |-> rng, cut |-> FALSE]

RECURSIVE money_sift(_, _, _)
money_sift(v, x, j) ==
    IF j = 0 THEN <<x>> \o v
    ELSE IF x.money > v[j].money THEN money_sift(v, x, j - 1)
    ELSE SubSeq(v, 1, j) \o <<x>> \o SubSeq(v, j + 1, Len(v))

RECURSIVE money_from(_, _, _)
money_from(seq, i, acc) ==
    IF i > Len(seq) THEN acc
    ELSE money_from(seq, i + 1, money_sift(acc, seq[i], Len(acc)))

\* beam.sort_unstable_by_key(|state| Reverse(state.money())) as the library
\* sorts a short slice: by insertion
sort_by_money(seq) == money_from(seq, 1, <<>>)

-----------------------------------------------------------------------------
(* SpecRuns: solve_midgame called twice with the same arguments.           *)

MaxSeed == 3
MaxRunPlyCount == 3
MaxRunBeamWidth == 2

RunsInit ==
    /\ pc = "start"
    /\ \E d \in 1..NumMidgameDecks, level \in MidgameLevels,
          ply_count \in 1..MaxRunPlyCount, beam_width \in 1..MaxRunBeamWidth,
          rng_seed \in 0..MaxSeed :
          /\ args = [level |-> level, money |-> 0, deck |-> MidgameDecks[d],
                     ply_count |-> ply_count, beam_width |-> beam_width,
                     rng_seed |-> rng_seed]
          /\ pile = MidgameDecks[d]
    /\ beam = <<>>
    /\ ply = 0
    /\ res = [op |-> "none", rng |-> 0, run |-> 1, cut |-> FALSE, first |-> Idle]
    /\ state = Idle
    /\ stack = <<>>
    /\ board = BoardNew

\* solve_midgame up to the loop: the asserts, the generator seeded,
\* State::new_initial, the beam holding the initial state
RunBegin ==
    /\ pc = "start"
    /\ args.ply_count <= PLY_COUNT_MAX
    /\ args.beam_width <= BEAM_WIDTH_MAX
    /\ args.level \in {9, 10}
    /\ \E ini \in {new_initial(args.level, args.money, pile)} :
          /\ ini.ok
          /\ beam' = <<ini.state>>
          /\ pile' = ini.pile
    /\ pc' = "loop"
    /\ res' = [res EXCEPT !.op = "begin", !.rng = seed_from_u64(args.rng_seed)]
    /\ UNCHANGED <<board, state, stack, ply, args>>

\* One iteration of the ply loop
RunPly ==
    /\ pc = "loop"
    /\ ply < args.ply_count
    /\ pile' = pile_pop(pile)
    /\ \E nxt \in {dedup_by_board(sort_by_board_frame(
                       expand_from(beam, ply, pile_top(pile), 1)))} :
       \E kept \in {truncate_beam(nxt, args.beam_width, res.rng, args.level, ply)} :
          /\ beam' = kept.v
          /\ res' = [res EXCEPT !.op = "ply", !.rng = kept.rng,
                                !.cut = res.cut \/ kept.cut]
    /\ ply' = ply + 1
    /\ UNCHANGED <<pc, board, state, stack, args>>

\* After the loop: the beam sorted by money and returned with the pile
RunReturn ==
    /\ pc = "loop"
    /\ ply = args.ply_count
    /\ beam' = sort_by_money(beam)
    /\ pc' = "returned"
    /\ res' = [res EXCEPT !.op = "return"]
    /\ UNCHANGED <<board, pile, state, stack, ply, args>>

\* The caller keeps the result and calls solve_midgame again with the same
\* arguments
RunAgain ==
    /\ pc = "returned"
    /\ res.run = 1
    /\ res' = [res EXCEPT !.op = "again", !.run = 2, !.cut = FALSE,
                          !.first = [beam |-> beam, pile |-> pile, cut |-> res.cut]]
    /\ pc' = "start"
    /\ pile' = args.deck
    /\ beam' = <<>>
    /\ ply' = 0
    /\ UNCHANGED <<board, state, stack, args>>

RunsNext ==
    \/ RunBegin
    \/ RunPly
    \/ RunReturn
    \/ RunAgain

SpecRuns == RunsInit /\ [][RunsNext]_vars

post_layout_pile == new_initial(args.level, args.money, args.deck).pile

\* C12: solve_midgame with ply count P returns the final beam in
\* non-increasing order of money, and the remaining pile: it holds exactly
\* 45 - P cards and is the pile left by the initial layout with the first P
\* cards drawn removed.
C12_MidgameResult ==
    pc = "returned" =>
        /\ \A i \in 1..(Len(beam) - 1) : beam[i].money >= beam[i + 1].money
        /\ Len(pile) = PLY_COUNT_MAX - args.ply_count
        /\ \A post \in {post_layout_pile} :
              /\ pile = SubSeq(post, 1, Len(post) - args.ply_count)
              /\ \A k \in 0..(Len(pile) - 1) :
                    pile_at(pile, k) = pile_at(post, args.ply_count + k)

\* C12 witness: a call with the largest ply count has returned candidates of
\* different money
C12_Witness ==
    /\ pc = "returned"
    /\ args.ply_count = MaxPlyCount
    /\ Len(beam) > 1
    /\ beam[1].money > beam[Len(beam)].money

-----------------------------------------------------------------------------
(* Solution as text: Display and FromStr.  A text is a sequence of         *)
(* characters.                                                             *)

\* MoveDisplay: the letter of a column
MoveDisplay(col) == <<"A", "B", "C", "D", "E">>[col + 1]

\* Display for Solution, from the ply-th move on: iter() stops at the first
\* ply without a move; ", " goes before every move but the first
RECURSIVE fmt_moves(_, _)
fmt_moves(sol, p) ==
    IF p >= PLY_COUNT_MAX \/ sol[p] = 0 THEN <<>>
    ELSE (IF p # 0 THEN <<",", " ">> ELSE <<>>)
         \o <<MoveDisplay(get_move(sol, p))>> \o fmt_moves(sol, p + 1)

\* Display for Solution: "[" the moves "]"
solution_to_string(sol) == <<"[">> \o fmt_moves(sol, 0) \o <<"]">>

\* s.strip_prefix('[').and_then(|s| s.strip_suffix(']'))
strip_brackets(s) ==
    IF Len(s) >= 2 /\ s[1] = "[" /\ s[Len(s)] = "]"
    THEN [ok |-> TRUE, s |-> SubSeq(s, 2, Len(s) - 1)]
    ELSE [ok |-> FALSE, s |-> <<>>]

\* The index of the first comma of s at or after i, Len(s) + 1 without one
next_comma(s, i) ==
    IF \E j \in i..Len(s) : s[j] = ","
    THEN CHOOSE j \in i..Len(s) : s[j] = "," /\ \A k \in i..(j - 1) : s[k] # ","
    ELSE Len(s) + 1

\* s.split(','): the pieces between the commas; a text without a comma, the
\* empty text included, is one piece
RECURSIVE split_from(_, _)
split_piece(s, i, j) ==
    <<SubSeq(s, i, j - 1)>> \o (IF j > Len(s) THEN <<>> ELSE split_from(s, j + 1))

split_from(s, i) == split_piece(s, i, next_comma(s, i))

split_comma(s) == split_from(s, 1)

RECURSIVE trim_start(_)
trim_start(s) == IF s # <<>> /\ s[1] = " " THEN trim_start(Tail(s)) ELSE s

RECURSIVE trim_end(_)
trim_end(s) ==
    IF s # <<>> /\ s[Len(s)] = " " THEN trim_end(SubSeq(s, 1, Len(s) - 1)) ELSE s

\* str::trim
trim(s) == trim_end(trim_start(s))

\* match token { "A" => COL_A, ... , _ => bail! }: the column, -1 for bail
token_move(token) ==
    IF token = <<"A">> THEN 0
    ELSE IF token = <<"B">> THEN 1
    ELSE IF token = <<"C">> THEN 2
    ELSE IF token = <<"D">> THEN 3
    ELSE IF token = <<"E">> THEN 4
    ELSE -1

\* for (ply, token) in tokens.enumerate(): every token must be a column
\* letter; add_move_inplace past the last ply is out of range
RECURSIVE parse_tokens(_, _, _)
parse_tokens(tokens, i, sol) ==
    IF i > Len(tokens) THEN [ok |-> TRUE, sol |-> sol]
    ELSE IF token_move(trim(tokens[i])) = -1 \/ i > PLY_COUNT_MAX
         THEN [ok |-> FALSE, sol |-> SolutionNew]
    ELSE parse_tokens(tokens, i + 1, add_move(sol, i - 1, token_move(trim(tokens[i]))))

from_str_inner(st) ==
    IF st.ok THEN parse_tokens(split_comma(st.s), 1, SolutionNew)
    ELSE [ok |-> FALSE, sol |-> SolutionNew]

\* FromStr for Solution
solution_from_str(s) == from_str_inner(strip_brackets(s))

-----------------------------------------------------------------------------
(* SpecSolutionText: solutions built a move at a time, written and read    *)
(* back.                                                                   *)

MaxFreeMoves == 3

SolutionTextInit ==
    /\ pc = "build"
    /\ args = [sol |-> SolutionNew]
    /\ ply = 0
    /\ res = Idle
    /\ state = Idle
    /\ beam = <<>>
    /\ stack = <<>>
    /\ pile = <<>>
    /\ board = BoardNew

\* sol.add_move(ply, col) at the next ply: any column for the first moves,
\* then the column of the move before, up to the full length
SolutionAdd(col) ==
    /\ pc = "build"
    /\ ply < PLY_COUNT_MAX
    /\ ply >= MaxFreeMoves => get_move(args.sol, ply - 1) = col
    /\ args' = [sol |-> add_move(args.sol, ply, col)]
    /\ ply' = ply + 1
    /\ UNCHANGED <<pc, board, pile, state, res, beam, stack>>

\* sol.to_string()
SolutionFormat ==
    /\ pc = "build"
    /\ res' = [op |-> "format", text |-> solution_to_string(args.sol)]
    /\ pc' = "formatted"
    /\ UNCHANGED <<board, pile, state, beam, stack, ply, args>>

\* text.parse::<Solution>()
SolutionParse ==
    /\ pc = "formatted"
    /\ res' = [op |-> "parse", text |-> res.text, parsed |-> solution_from_str(res.text)]
    /\ pc' = "parsed"
    /\ UNCHANGED <<board, pile, state, beam, stack, ply, args>>

SolutionTextNext ==
    \/ \E col \in Cols : SolutionAdd(col)
    \/ SolutionFormat
    \/ SolutionParse

SpecSolutionText == SolutionTextInit /\ [][SolutionTextNext]_vars

RoundTrips == res.parsed.ok /\ res.parsed.sol = args.sol

\* C13: for any solution s, of any length 0..45, the empty solution
\* included, parsing the text of s succeeds and gives s.
C13_RoundTrip == pc = "parsed" => RoundTrips

\* C13, the solutions of at least one move: parsing the text of s succeeds
\* and gives s
C13_NonEmptyRoundTrip == (pc = "parsed" /\ solution_len(args.sol) > 0) => RoundTrips

\* C13: the empty solution is written as "[]" and reading it back fails
C13_Witness ==
    /\ pc = "parsed"
    /\ args.sol = SolutionNew
    /\ res.text = <<"[", "]">>
    /\ ~res.parsed.ok

-----------------------------------------------------------------------------
(* Card as text and as the value the original game stores.                 *)

\* Display for CardSuit
suit_char(suit) == <<"S", "C", "H", "D">>[suit]

\* Display for CardRank
rank_char(rank) == <<"A", "2", "3", "4", "5", "6", "7", "8", "9", "T", "J", "Q", "K">>[rank]

\* Display for Card: the suit, then the rank
card_to_string(card) == <<suit_char(Suit(card)), rank_char(Rank(card))>>

\* CardSuit::parse_ascii_char: the suit, None for any other character
suit_parse_ascii_char(ch) ==
    IF ch = "S" THEN SPADE
    ELSE IF ch = "C" THEN CLUB
    ELSE IF ch = "H" THEN HEART
    ELSE IF ch = "D" THEN DIAMOND
    ELSE None

\* CardRank::parse_ascii_char: the rank, None for any other character
rank_parse_ascii_char(ch) ==
    IF ch = "A" THEN RANK_A
    ELSE IF ch \in {"2", "3", "4", "5", "6", "7", "8", "9"}
         THEN CHOOSE r \in 2..9 : rank_char(r) = ch
    ELSE IF ch = "T" THEN RANK_T
    ELSE IF ch = "J" THEN RANK_J
    ELSE IF ch = "Q" THEN RANK_Q
    ELSE IF ch = "K" THEN RANK_K
    ELSE None

parse_suit_rank(suit, rank) ==
    IF suit = None \/ rank = None THEN [ok |-> FALSE, card |-> None]
    ELSE [ok |-> TRUE, card |-> Card(suit, rank)]

\* Card::parse_ascii_str: exactly two characters, a suit and a rank
card_from_str(s) ==
    IF Len(s) # 2 THEN [ok |-> FALSE, card |-> None]
    ELSE parse_suit_rank(suit_parse_ascii_char(s[1]), rank_parse_ascii_char(s[2]))

\* to_cadillac_value with the suit's own value in the high bits
to_cadillac_value_mut(card) == ((Suit(card) * 16) % 256) + Rank(card)

\* Card::to_cadillac_value: ((suit - 1) << 4) | rank; the two masks share no
\* bit
to_cadillac_value(card) == (((Suit(card) - 1) * 16) % 256) + Rank(card)

\* Card::from_cadillac_value is Some: CardSuit::from_inner(1 + (value >> 4))
\* and CardRank::from_inner(value & 0xF) are both Some
cadillac_value_is_some(value) ==
    /\ 1 + (value \div 16) \in Suits
    /\ value % 16 \in Ranks

-----------------------------------------------------------------------------
(* SpecCard: each card written, read back, encoded and decoded.            *)

CardInit ==
    /\ pc = "card"
    /\ args \in {[card |-> c] : c \in AllCards}
    /\ res = Idle
    /\ ply = 0
    /\ state = Idle
    /\ beam = <<>>
    /\ stack = <<>>
    /\ pile = <<>>
    /\ board = BoardNew

\* card.to_string()
CardFormat ==
    /\ pc = "card"
    /\ res' = [op |-> "format", text |-> card_to_string(args.card)]
    /\ pc' = "formatted"
    /\ UNCHANGED <<board, pile, state, beam, stack, ply, args>>

\* text.parse::<Card>()
CardParse ==
    /\ pc = "formatted"
    /\ res' = [op |-> "parse", text |-> res.text, parsed |-> card_from_str(res.text)]
    /\ pc' = "parsed"
    /\ UNCHANGED <<board, pile, state, beam, stack, ply, args>>

\* card.to_cadillac_value()
CardEncode ==
    /\ pc = "parsed"
    /\ res' = [op |-> "encode", text |-> res.text, parsed |-> res.parsed,
               value |-> to_cadillac_value(args.card)]
    /\ pc' = "encoded"
    /\ UNCHANGED <<board, pile, state, beam, stack, ply, args>>

\* Card::from_cadillac_value(value)
CardDecode ==
    /\ pc = "encoded"
    /\ res' = [op |-> "decode", text |-> res.text, parsed |-> res.parsed,
               value |-> res.value,
               some |-> cadillac_value_is_some(res.value),
               decoded |-> IF cadillac_value_is_some(res.value)
                           THEN from_cadillac_value(res.value) ELSE None]
    /\ pc' = "decoded"
    /\ UNCHANGED <<board, pile, state, beam, stack, ply, args>>

CardNext ==
    \/ CardFormat
    \/ CardParse
    \/ CardEncode
    \/ CardDecode

SpecCard == CardInit /\ [][CardNext]_vars

\* C14: for each of the 52 cards c, the text of c has two characters and
\* parsing it gives c; the value of c in the original game has the suit
\* index 0..3 in bits 4 and up and the rank in the low four bits, and
\* from_cadillac_value of it is Some(c).
C14_CardRoundTrip ==
    /\ pc \in {"parsed", "encoded", "decoded"} =>
          /\ Len(res.text) = 2
          /\ res.parsed.ok
          /\ res.parsed.card = args.card
    /\ pc \in {"encoded", "decoded"} =>
          /\ res.value \in 0..255
          /\ res.value \div 16 = Suit(args.card) - 1
          /\ res.value \div 16 \in 0..3
          /\ res.value % 16 = Rank(args.card)
    /\ pc = "decoded" =>
          /\ res.some
          /\ res.decoded = args.card

\* C14 witness: the king of diamonds, text "DK" and value 0x3D, read back
\* and decoded
C14_Witness ==
    /\ pc = "decoded"
    /\ args.card = Card(DIAMOND, RANK_K)
    /\ res.text = <<"D", "K">>
    /\ res.value = 61
    /\ res.decoded = args.card

-----------------------------------------------------------------------------
(* SpecNeighbors: State::neighbors on the states of a game played a card   *)
(* at a time from a few starting boards.                                   *)

MaxNeighborPlies == 3

\* The board with the given columns, each column bottom to top
BoardOfCols(cols) == [sq \in Squares |-> cols[(sq \div 5) + 1][(sq % 5) + 1]]

\* The board of test_state_neighbors
NeighborTestBoard ==
    BoardOfCols(<<
        <<None, None, None, None, None>>,
        <<Card(CLUB, 2), None, None, None, None>>,
        <<Card(SPADE, 2), Card(CLUB, RANK_J), None, None, None>>,
        <<Card(DIAMOND, RANK_J), Card(HEART, 9), Card(CLUB, 7), None, None>>,
        <<Card(SPADE, 9), Card(DIAMOND, 7), Card(HEART, 5), Card(CLUB, 3), None>> >>)

\* A board without yaku whose only empty cell is the top of column E
NeighborCrowdedBoard ==
    BoardOfCols(<<
        <<Card(CLUB, RANK_T), Card(SPADE, 8), Card(DIAMOND, 2), Card(SPADE, RANK_J), Card(HEART, RANK_Q)>>,
        <<Card(DIAMOND, 4), Card(HEART, 3), Card(SPADE, RANK_K), Card(SPADE, 9), Card(CLUB, 3)>>,
        <<Card(SPADE, RANK_Q), Card(HEART, 5), Card(SPADE, 2), Card(HEART, 7), Card(DIAMOND, 8)>>,
        <<Card(HEART, 6), Card(DIAMOND, 5), Card(CLUB, RANK_J), Card(HEART, RANK_J), Card(CLUB, 4)>>,
        <<Card(HEART, 9), Card(CLUB, RANK_Q), Card(DIAMOND, RANK_J), Card(DIAMOND, 7), None>> >>)

NeighborBoards == <<BoardNew, NeighborTestBoard, NeighborCrowdedBoard>>

\* The cards drawn, ply by ply
NeighborCardSeq ==
    <<Card(HEART, 4), Card(HEART, 2), Card(DIAMOND, 9), Card(CLUB, 5), Card(SPADE, 4)>>

NeighborsInit ==
    /\ pc = "state"
    /\ \E b \in 1..Len(NeighborBoards) :
          state = StateNew(0, 0, NeighborBoards[b], SolutionNew)
    /\ ply = 0
    /\ res = Idle
    /\ args = Idle
    /\ beam = <<>>
    /\ stack = <<>>
    /\ pile = <<>>
    /\ board = BoardNew

\* state.neighbors(ply, card) for the card drawn at this ply
NeighborsList ==
    /\ pc = "state"
    /\ ply < MaxNeighborPlies
    /\ \E card \in {NeighborCardSeq[ply + 1]} :
          /\ args' = [op |-> "neighbors", ply |-> ply, card |-> card]
          /\ beam' = neighbors(state, ply, card)
    /\ res' = [op |-> "neighbors"]
    /\ pc' = "listed"
    /\ UNCHANGED <<board, pile, state, stack, ply>>

\* The search goes on from one of the successors
NeighborsTake(i) ==
    /\ pc = "listed"
    /\ i \in 1..Len(beam)
    /\ state' = beam[i]
    /\ ply' = ply + 1
    /\ pc' = "state"
    /\ beam' = <<>>
    /\ res' = [op |-> "take"]
    /\ UNCHANGED <<board, pile, stack, args>>

NeighborsNext ==
    \/ NeighborsList
    \/ \E i \in 1..5 : NeighborsTake(i)

SpecNeighbors == NeighborsInit /\ [][NeighborsNext]_vars

\* The columns of b that are not full, in the order A..E
OpenCols(b) == {c \in Cols : ColHeight(b, c) < 5}

NthOpenCol(b, k) ==
    CHOOSE c \in OpenCols(b) : Cardinality({d \in OpenCols(b) : d < c}) = k - 1

\* C15: State::neighbors(ply, card) returns, in the column order A..E,
\* exactly one successor per column that is not full (0 to 5 of them); the
\* successor of column c equals do_move(ply, card, c): its frame is the
\* parent's plus the placement frame plus the chain's frames, its money the
\* parent's plus the chain's prize, its board the board after the chain, its
\* solution the parent's with c recorded at ply; a placement that creates
\* no yaku adds exactly the placement frame and no money.
C15_NeighborsAreMoves ==
    pc = "listed" =>
        /\ Len(beam) = Cardinality(OpenCols(state.board))
        /\ Len(beam) \in 0..5
        /\ \A k \in 1..Len(beam) :
           \A c \in {NthOpenCol(state.board, k)} :
           \A pt \in {put(state.board, c, args.card)} :
           \A ch \in {process_yaku_chain(pt.board)} :
              /\ pt.ok
              /\ beam[k] = do_move(state, args.ply, args.card, c)
              /\ beam[k].frame = U16(state.frame + pt.frame + ch.frame)
              /\ beam[k].money = U16(state.money + ch.prize)
              /\ beam[k].board = ch.board
              /\ beam[k].solution = [state.solution EXCEPT ![args.ply] = c + 1]
              /\ get_move(beam[k].solution, args.ply) = c
              /\ count_nonzero(detect_yaku(pt.board)) = 0 =>
                    /\ beam[k].frame = U16(state.frame + put_frame(ColHeight(state.board, c)))
                    /\ beam[k].money = state.money
                    /\ beam[k].board = pt.board

\* C15 witness: a state with a full column has four successors, one of
\* which went through a yaku chain and another of which created no yaku
C15_Witness ==
    /\ pc = "listed"
    /\ Len(beam) = 4
    /\ \E i, j \in 1..4 :
          /\ beam[i].money > state.money
          /\ beam[j].money = state.money
          /\ beam[j].frame = state.frame + put_frame(ColHeight(state.board, NthOpenCol(state.board, j)))

\* C15: a state whose columns are all full has no successor
C15_WitnessNone ==
    /\ pc = "listed"
    /\ OpenCols(state.board) = {}
    /\ beam = <<>>

-----------------------------------------------------------------------------
(* SpecPrize: boards of up to five columns laid from a few hands of cards, *)
(* then one yaku step.                                                     *)

NumPrizeCards == 6

\* The hands: ten to ace of spades; queen to three of spades; ten to ace
\* with the jack of hearts; each followed by two low hearts
PrizeDecks ==
    {<<Card(SPADE, RANK_T), Card(SPADE, RANK_J), Card(SPADE, RANK_Q),
       Card(SPADE, RANK_K), Card(SPADE, RANK_A), Card(HEART, 5), Card(HEART, 8)>>,
     <<Card(SPADE, RANK_Q), Card(SPADE, RANK_K), Card(SPADE, RANK_A),
       Card(SPADE, 2), Card(SPADE, 3), Card(HEART, 5), Card(HEART, 8)>>,
     <<Card(SPADE, RANK_T), Card(HEART, RANK_J), Card(SPADE, RANK_Q),
       Card(SPADE, RANK_K), Card(SPADE, RANK_A), Card(HEART, 5), Card(HEART, 8)>>}

PrizeInit ==
    /\ pc = "build"
    /\ args \in {[deck |-> d] : d \in PrizeDecks}
    /\ board = BoardNew
    /\ res = Idle
    /\ ply = 0
    /\ pile = <<>>
    /\ state = Idle
    /\ beam = <<>>
    /\ stack = <<>>

\* Board::put of the next card of the hand
PrizePut(col) ==
    /\ pc = "build"
    /\ ply < NumPrizeCards
    /\ \E pt \in {put(board, col, args.deck[ply + 1])} :
          /\ pt.ok
          /\ board' = pt.board
    /\ ply' = ply + 1
    /\ UNCHANGED <<pc, res, args, pile, state, beam, stack>>

\* process_yaku_step on the board
PrizeStep ==
    /\ pc = "build"
    /\ \E cur \in {process_yaku_step(board)} :
          /\ board' = cur.board
          /\ res' = [op |-> "step", before |-> board, prize |-> cur.prize,
                     frame |-> cur.frame, marked |-> cur.marked]
    /\ pc' = "done"
    /\ UNCHANGED <<args, ply, pile, state, beam, stack>>

PrizeNext ==
    \/ \E col \in Cols : PrizePut(col)
    \/ PrizeStep

SpecPrize == PrizeInit /\ [][PrizeNext]_vars

\* The n cells of row r from column c0 on
RunCells(r, c0, n) == {Sq(c, r) : c \in c0..(c0 + n - 1)}

\* The cells hold cards of one suit whose ranks go up by one, or down by
\* one, from left to right (the ace follows the king)
IsSuitedRun(b, r, c0, n) ==
    /\ \A c \in c0..(c0 + n - 1) : b[Sq(c, r)] # None
    /\ \A c \in c0..(c0 + n - 1) : Suit(b[Sq(c, r)]) = Suit(b[Sq(c0, r)])
    /\ \/ \A c \in c0..(c0 + n - 2) :
             Rank(b[Sq(c + 1, r)]) = RankNext(Rank(b[Sq(c, r)]))
       \/ \A c \in c0..(c0 + n - 2) :
             Rank(b[Sq(c + 1, r)]) = RankPrev(Rank(b[Sq(c, r)]))

\* The ranks of a row read ten to ace or ace to ten, left to right
RowReadsRoyal(b, r) ==
    /\ \A c \in Cols : b[Sq(c, r)] # None
    /\ \/ [i \in 1..5 |-> Rank(b[Sq(i - 1, r)])] = <<10, 11, 12, 13, 1>>
       \/ [i \in 1..5 |-> Rank(b[Sq(i - 1, r)])] = <<1, 13, 12, 11, 10>>

\* The board b without the cards of the cells
Without(b, cells) == [sq \in Squares |-> IF sq \in cells THEN None ELSE b[sq]]

StackedPrize(n) == prize_straight_flush(n) + prize_straight(n) + prize_flush(n)

\* C16: when the only yaku of the board is one run of n = 3, 4 or 5 adjacent
\* cards of a row, of one suit and consecutive ranks (up or down, the ace
\* next to the king), one step awards the straight flush, the straight and
\* the flush prizes of n cards together (50, 70, 200, the royal bonus
\* apart), removes exactly those n cards and settles the cards above them.
C16_PrizeStacking ==
    pc = "done" =>
        \A r \in Rows, n \in 3..5 : \A c0 \in 0..(5 - n) :
            (/\ IsSuitedRun(res.before, r, c0, n)
             /\ squares_nonzero(detect_yaku(res.before)) = RunCells(r, c0, n))
            => /\ res.prize - (IF n = 5 /\ RowReadsRoyal(res.before, r) THEN 200 ELSE 0)
                    = StackedPrize(n)
               /\ StackedPrize(n) = <<50, 70, 200>>[n - 2]
               /\ res.marked = n
               /\ card_count(board) = card_count(res.before) - n
               /\ Settled(board)
               /\ \A col \in Cols :
                     ColCards(board, col)
                       = ColCards(Without(res.before, RunCells(r, c0, n)), col)

\* C16 witness: a run of four cards whose step pays 70 and lets a card
\* above the run fall into a cell of the run
C16_Witness ==
    /\ pc = "done"
    /\ res.prize = 70
    /\ res.marked = 4
    /\ \E r \in Rows : \E c0 \in 0..1 :
          /\ IsSuitedRun(res.before, r, c0, 4)
          /\ \E sq \in RunCells(r, c0, 4) : board[sq] # None

\* C16: runs of three and of five cards paid 50 and 200
C16_WitnessThreeFive ==
    /\ pc = "done"
    /\ res.prize \in {50, 200}
    /\ res.marked \in {3, 5}
    /\ \E r \in Rows : \E c0 \in 0..2 : IsSuitedRun(res.before, r, c0, res.marked)

\* A row all of whose five cells are marked both straight and flush
RowAllStraightFlush(yb, r) == \A c \in Cols : has_straight(yb[Sq(c, r)]) /\ has_flush(yb[Sq(c, r)])

\* The rows that earn the royal flush bonus
RoyalRows(b) == {r \in Rows : RowAllStraightFlush(detect_yaku(b), r) /\ RowReadsRoyal(b, r)}

\* The straight flush prize of a line of masks, without any bonus
LineStraightFlush(ary) ==
    IF PrizeRunLen("straight_flush", ary) = 0 THEN 0
    ELSE prize_straight_flush(PrizeRunLen("straight_flush", ary))

\* The prizes of a board before the multiplier, the royal bonus left out
PrizeWithoutRoyal(yb) ==
    Sum5([r \in Rows |-> LineStraightFlush(YakuRow(yb, r))])
    + Sum5([c \in Cols |-> LineStraightFlush(YakuCol(yb, c))])
    + calc_prize_straight(yb) + calc_prize_flush(yb) + calc_prize_n_of_kind(yb)

PrizeWithRoyal(b, yb) ==
    U16((PrizeWithoutRoyal(yb) + PRIZE_ROYAL_FLUSH * Cardinality(RoyalRows(b)))
        * combo_multiplier(count_nonzero(yb)))

\* C17: the royal flush bonus of 200 is added exactly for a row all of whose
\* five cells are marked both straight and flush and whose ranks read
\* T J Q K A or A K Q J T from left to right; never for a column, and not
\* for a five-card straight flush through the ace such as Q K A 2 3.
C17_RoyalBonus ==
    pc = "done" =>
        /\ res.prize = PrizeWithRoyal(res.before, detect_yaku(res.before))
        /\ \A r \in Rows :
              (/\ IsSuitedRun(res.before, r, 0, 5)
               /\ squares_nonzero(detect_yaku(res.before)) = RunCells(r, 0, 5))
              => res.prize = (IF RowReadsRoyal(res.before, r) THEN 400 ELSE 200)
        /\ \A c \in Cols :
              (/\ squares_nonzero(detect_yaku(res.before)) = {Sq(c, r) : r \in Rows}
               /\ \A r \in Rows : has_straight(detect_yaku(res.before)[Sq(c, r)])
                                  /\ has_flush(detect_yaku(res.before)[Sq(c, r)]))
              => res.prize = 200

\* C17 witness: the row A K Q J T of spades paid 400
C17_Witness ==
    /\ pc = "done"
    /\ res.prize = 400
    /\ \E r \in Rows :
          [i \in 1..5 |-> res.before[Sq(i - 1, r)]]
            = <<Card(SPADE, RANK_A), Card(SPADE, RANK_K), Card(SPADE, RANK_Q),
                Card(SPADE, RANK_J), Card(SPADE, RANK_T)>>

\* C17: the column T J Q K A of spades paid 200
C17_WitnessColumn ==
    /\ pc = "done"
    /\ res.prize = 200
    /\ \E c \in Cols :
          [i \in 1..5 |-> res.before[Sq(c, i - 1)]]
            = <<Card(SPADE, RANK_T), Card(SPADE, RANK_J), Card(SPADE, RANK_Q),
                Card(SPADE, RANK_K), Card(SPADE, RANK_A)>>

\* C17: a row reading Q K A 2 3 of spades, left to right or right to left,
\* paid 200
C17_WitnessWrap ==
    /\ pc = "done"
    /\ res.prize = 200
    /\ \E r \in Rows :
          /\ IsSuitedRun(res.before, r, 0, 5)
          /\ Rank(res.before[Sq(2, r)]) = RANK_A

-----------------------------------------------------------------------------
(* SpecDeck: initial decks given as memory dumps (byte sequences) to       *)
(* CardPile::parse_memory_initial, or as card arrays to                    *)
(* CardPile::new_initial, and the search started on an accepted deck.      *)

\* CardPile::new_initial without the uniqueness assertion
pile_new_initial_mut(inner) == [ok |-> Len(inner) = 52, pile |-> inner]

\* CardPile::new_initial: assert_eq!(uniq_count, 52); ok = FALSE stands for
\* the panic
pile_new_initial(inner) ==
    [ok |-> Len(inner) = 52 /\ Cardinality({inner[i] : i \in 1..Len(inner)}) = 52,
     pile |-> inner]

\* CardPile::parse_memory_initial: 2 * 52 characters, that is 52 bytes,
\* each of which must be the value of a card; the cards in reverse order
parse_memory_initial(mem) ==
    IF Len(mem) = 52 /\ \A i \in 1..Len(mem) : cadillac_value_is_some(mem[i])
    THEN [ok |-> TRUE, pile |-> parse_memory(mem)]
    ELSE [ok |-> FALSE, pile |-> <<>>]

MaxDumpPos == 5

\* The dump of the deck in Card::all order
SortedDump == [i \in 1..52 |-> to_cadillac_value(CardAll[i])]

\* The dumps: the sorted deck, the cheat deck, the sorted deck with one byte
\* overwritten by another of its bytes or by a byte that is no card, and the
\* sorted deck cut short
DeckDumps ==
    {SortedDump, CHEAT_PILE_MEMORY, SubSeq(SortedDump, 1, 51)}
    \cup {[SortedDump EXCEPT ![i] = SortedDump[j]] :
            i \in 1..MaxDumpPos, j \in (52 - MaxDumpPos)..52}
    \cup {[SortedDump EXCEPT ![i] = v] : i \in 1..MaxDumpPos, v \in {0, 14, 64}}

DeckInit ==
    /\ pc = "dump"
    /\ args \in {[mem |-> d] : d \in DeckDumps}
    /\ pile = <<>>
    /\ board = BoardNew
    /\ res = Idle
    /\ ply = 0
    /\ state = Idle
    /\ beam = <<>>
    /\ stack = <<>>

\* CardPile::parse_memory_initial(dump)
DeckParseMemoryInitial ==
    /\ pc = "dump"
    /\ \E r \in {parse_memory_initial(args.mem)} :
          /\ res' = [op |-> "parse_memory_initial", ok |-> r.ok]
          /\ pile' = r.pile
          /\ pc' = IF r.ok THEN "accepted" ELSE "halted"
    /\ UNCHANGED <<board, state, beam, stack, ply, args>>

\* CardPile::new_initial(cards) for the 52 cards the dump lists
DeckNewInitial ==
    /\ pc = "dump"
    /\ Len(args.mem) = 52
    /\ \A i \in 1..52 : cadillac_value_is_some(args.mem[i])
    /\ \E r \in {pile_new_initial(parse_memory(args.mem))} :
          /\ res' = [op |-> "new_initial", ok |-> r.ok]
          /\ pile' = IF r.ok THEN r.pile ELSE <<>>
          /\ pc' = IF r.ok THEN "accepted" ELSE "halted"
    /\ UNCHANGED <<board, state, beam, stack, ply, args>>

\* The search starts on the accepted deck: solve_midgame lays out the
\* initial position
DeckStartSearch(level) ==
    /\ pc = "accepted"
    /\ \E ini \in {new_initial(level, 0, pile)} :
          /\ ini.ok
          /\ state' = ini.state
          /\ pile' = ini.pile
    /\ pc' = "search"
    /\ UNCHANGED <<board, res, beam, stack, ply, args>>

DeckNext ==
    \/ DeckParseMemoryInitial
    \/ DeckNewInitial
    \/ \E level \in MidgameLevels : DeckStartSearch(level)

SpecDeck == DeckInit /\ [][DeckNext]_vars

\* The dump lists some card twice
DumpHasDuplicate == \E i, j \in 1..Len(args.mem) : i # j /\ args.mem[i] = args.mem[j]

\* C18: a 52-card deck that contains a duplicate is never accepted as the
\* initial deck, whether it is built by CardPile::new_initial or by
\* parse_memory_initial: the implementation halts with an error and no
\* search starts.
C18_DuplicateNeverAccepted ==
    (Len(args.mem) = 52 /\ DumpHasDuplicate) => pc \notin {"accepted", "search"}

\* C18 as the code has it: CardPile::new_initial accepts a 52-card array
\* exactly when its cards are distinct and halts otherwise, so no search
\* starts from it on a deck with a duplicate; parse_memory_initial accepts
\* a dump exactly when it is 52 bytes each of which is the value of a card,
\* duplicates or not.
C18_OnlyNewInitialChecks ==
    /\ res.op = "new_initial" =>
          /\ res.ok <=> ~DumpHasDuplicate
          /\ pc \in {"accepted", "search"} <=> ~DumpHasDuplicate
          /\ pc = "halted" <=> DumpHasDuplicate
    /\ res.op = "parse_memory_initial" =>
          /\ res.ok <=> (Len(args.mem) = 52
                         /\ \A i \in 1..Len(args.mem) :
                               /\ 1 + (args.mem[i] \div 16) \in 1..4
                               /\ args.mem[i] % 16 \in 1..13)
          /\ pc \in {"accepted", "search"} <=> res.ok

\* C18 witness: new_initial halted on a deck with a duplicate
C18_Witness ==
    /\ res.op = "new_initial"
    /\ pc = "halted"
    /\ DumpHasDuplicate

\* C18: a search started on the cheat deck, which parse_memory_initial
\* accepted although it lists two cards twice
C18_WitnessCheat ==
    /\ res.op = "parse_memory_initial"
    /\ pc = "search"
    /\ args.mem = CHEAT_PILE_MEMORY
    /\ DumpHasDuplicate

\* C20: every call of the endgame dfs, whether it is pruned, ends at the
\* empty pile or recurses, returns with the pile it was entered with: the
\* same cards in the same order.
C20_DfsLeavesPile ==
    [][(pc = "dfs" /\ Len(stack') < Len(stack)) => pile' = stack[Len(stack)].pile_in]_vars

\* C20: between the calls, the pile is the entry pile of the call on top,
\* less the card that call popped
C20_PileBetweenCalls ==
    pc = "dfs" =>
        \A k \in 1..Len(stack) :
            /\ stack[k].pile_in = SubSeq(args.pile, 1, Len(args.pile) - (k - 1))
            /\ k = Len(stack) =>
                  pile = IF stack[k].at = "enter" THEN stack[k].pile_in
                         ELSE pile_pop(stack[k].pile_in)

\* C20 witness: the outermost call has returned after recursing over a pile
\* of the largest size and emitting a solution, and the pile is the one it
\* was called with
C20_Witness ==
    /\ pc = "returned"
    /\ Len(args.pile) = MaxEndgameLen
    /\ Len(res.emitted) > 0
    /\ pile = args.pile

-----------------------------------------------------------------------------
(* SpecOptimize: examples/optimize.rs.  An answer (frame, solution) of a   *)
(* deck is replayed from the initial state for the first                   *)
(* PLY_COUNT_MAX - endgame_len plies (Answer::endgame_state), then optimize *)
(* runs its dfs on the remaining pile with frame_best = answer.frame.      *)

MaxOptimizeLen == 3

OptimizeLevel == 9

\* The decks of the answers
OptimizeDecks == <<DeckOf(<<>>), cheat_pile>>

\* Board-clearing games of the two decks, as column indices per ply
OptimizeColsSorted ==
    <<4, 2, 0, 0, 3, 2, 4, 4, 2, 1, 2, 1, 1, 0, 0, 0, 4, 3, 3, 4, 2, 2, 2,
      4, 1, 4, 2, 0, 3, 2, 1, 0, 1, 2, 0, 2, 1, 0, 0, 0, 1, 3, 2, 4, 4>>

OptimizeColsCheat ==
    <<2, 0, 4, 3, 1, 3, 1, 3, 2, 2, 4, 1, 3, 2, 1, 4, 2, 1, 4, 1, 1, 3, 1,
      2, 4, 1, 0, 1, 2, 4, 4, 3, 2, 3, 4, 3, 4, 4, 2, 4, 4, 3, 2, 4, 3>>

\* The Solution holding the moves `cols`, the last Len(tail) of them
\* replaced by `tail`
SolutionOfCols(cols, tail) ==
    [p \in 0..(PLY_COUNT_MAX - 1) |->
        IF p < Len(cols) - Len(tail) THEN cols[p + 1] + 1
        ELSE IF p < Len(cols) THEN tail[p + 1 - (Len(cols) - Len(tail))] + 1
        ELSE 0]

\* The answers file: the deck and the (frame, solution) of each line.  Two
\* games per deck that differ in their last two moves.
OptimizeAnswers ==
    <<[deck |-> 1, frame |-> 5609, solution |-> SolutionOfCols(OptimizeColsSorted, <<>>)],
      [deck |-> 1, frame |-> 5657, solution |-> SolutionOfCols(OptimizeColsSorted, <<3, 2>>)],
      [deck |-> 2, frame |-> 5433, solution |-> SolutionOfCols(OptimizeColsCheat, <<>>)],
      [deck |-> 2, frame |-> 5433, solution |-> SolutionOfCols(OptimizeColsCheat, <<0, 1>>)]>>

\* The frame field of an answer line: the frame of the solution, or any
\* other number (the field is parsed, never compared with the solution)
AnswerFrames(f) == {f, 65535}

OptimizeInit ==
    /\ pc = "answer"
    /\ \E a \in 1..Len(OptimizeAnswers), endgame_len \in 0..MaxOptimizeLen :
         \E frame \in AnswerFrames(OptimizeAnswers[a].frame) :
            args = [level |-> OptimizeLevel,
                    deck |-> OptimizeDecks[OptimizeAnswers[a].deck],
                    solution |-> OptimizeAnswers[a].solution,
                    frame |-> frame,
                    answer |-> a,
                    endgame_len |-> endgame_len]
    /\ pile = <<>>
    /\ state = StateNew(0, 0, BoardNew, SolutionNew)
    /\ ply = 0
    /\ res = Idle
    /\ stack = <<>>
    /\ board = BoardNew
    /\ beam = <<>>

\* Answer::endgame_state: State::new_initial(level, 0, pile)
OptimizeNewInitial ==
    /\ pc = "answer"
    /\ \E ini \in {new_initial(args.level, 0, args.deck)} :
          /\ ini.ok
          /\ state' = ini.state
          /\ pile' = ini.pile
    /\ ply' = 0
    /\ pc' = "replay"
    /\ UNCHANGED <<board, res, beam, stack, args>>

\* Answer::endgame_state: one turn of for ply in 0..PLY_COUNT_MAX - endgame_len
OptimizeReplay ==
    /\ pc = "replay"
    /\ ply < PLY_COUNT_MAX - args.endgame_len
    /\ pile # <<>>
    /\ get_move(args.solution, ply) \in Cols
    /\ put(state.board, get_move(args.solution, ply), pile_top(pile)).ok
    /\ state' = do_move(state, ply, pile_top(pile), get_move(args.solution, ply))
    /\ pile' = pile_pop(pile)
    /\ ply' = ply + 1
    /\ UNCHANGED <<pc, board, res, beam, stack, args>>

\* Answer::endgame_state returns (state, pile)
OptimizeEndgameState ==
    /\ pc = "replay"
    /\ ply = PLY_COUNT_MAX - args.endgame_len
    /\ pc' = "endgame_state"
    /\ UNCHANGED <<board, pile, state, res, beam, stack, ply, args>>

\* optimize(pile, state, answer.frame): the outermost call of dfs
OptimizeCall ==
    /\ pc = "endgame_state"
    /\ pc' = "optimize"
    /\ stack' = <<[at |-> "enter", state |-> state]>>
    /\ res' = [op |-> "optimize", frame_best |-> args.frame, emitted |-> <<>>]
    /\ UNCHANGED <<board, pile, state, beam, ply, args>>

\* return from the innermost call of optimize's dfs
OptimizePop ==
    /\ stack' = SubSeq(stack, 1, Len(stack) - 1)
    /\ pc' = IF Len(stack) = 1 THEN "optimized" ELSE "optimize"

optimize_prune_mut(st, frame_best) == st.frame > frame_best

\* if state.frame() >= *frame_best { return; }
optimize_prune(st, frame_best) == st.frame >= frame_best

OptimizePrune ==
    /\ pc = "optimize"
    /\ DfsTop.at = "enter"
    /\ optimize_prune(DfsTop.state, res.frame_best)
    /\ OptimizePop
    /\ UNCHANGED <<board, pile, state, res, beam, ply, args>>

\* pile.pop() is None and card_count is 0: frame_best is lowered and the
\* answer printed (frame, money, solution)
OptimizeEmit ==
    /\ pc = "optimize"
    /\ DfsTop.at = "enter"
    /\ ~optimize_prune(DfsTop.state, res.frame_best)
    /\ pile = <<>>
    /\ card_count(DfsTop.state.board) = 0
    /\ res' = [op |-> "optimize",
               frame_best |-> DfsTop.state.frame,
               emitted |-> Append(res.emitted,
                             [frame |-> DfsTop.state.frame,
                              money |-> DfsTop.state.money,
                              solution |-> DfsTop.state.solution,
                              card_count |-> card_count(DfsTop.state.board),
                              pile_len |-> Len(pile),
                              frame_best |-> res.frame_best])]
    /\ OptimizePop
    /\ UNCHANGED <<board, pile, state, beam, ply, args>>

\* pile.pop() is None and cards are left on the board
OptimizeSkip ==
    /\ pc = "optimize"
    /\ DfsTop.at = "enter"
    /\ ~optimize_prune(DfsTop.state, res.frame_best)
    /\ pile = <<>>
    /\ card_count(DfsTop.state.board) # 0
    /\ OptimizePop
    /\ UNCHANGED <<board, pile, state, res, beam, ply, args>>

\* pile.pop() gave a card: ply = PLY_COUNT_MAX - 1 - pile.len(), and the
\* neighbors are computed for the for loop
OptimizeExpand ==
    /\ pc = "optimize"
    /\ DfsTop.at = "enter"
    /\ ~optimize_prune(DfsTop.state, res.frame_best)
    /\ pile # <<>>
    /\ pile' = pile_pop(pile)
    /\ \E nbs \in {neighbors(DfsTop.state, PLY_COUNT_MAX - 1 - (Len(pile) - 1), pile_top(pile))} :
          stack' = [stack EXCEPT ![Len(stack)] =
                       [at |-> "loop", state |-> DfsTop.state,
                        card |-> pile_top(pile), nbs |-> nbs, i |-> 1]]
    /\ UNCHANGED <<pc, board, state, res, beam, ply, args>>

\* for neighbor in ...: dfs(pile, neighbor, frame_best)
OptimizeDescend ==
    /\ pc = "optimize"
    /\ DfsTop.at = "loop"
    /\ DfsTop.i <= Len(DfsTop.nbs)
    /\ stack' = Append([stack EXCEPT ![Len(stack)].i = DfsTop.i + 1],
                       [at |-> "enter", state |-> DfsTop.nbs[DfsTop.i]])
    /\ UNCHANGED <<pc, board, pile, state, res, beam, ply, args>>

\* The loop is over: pile.push(card), return
OptimizeReturn ==
    /\ pc = "optimize"
    /\ DfsTop.at = "loop"
    /\ DfsTop.i > Len(DfsTop.nbs)
    /\ pile' = pile_push(pile, DfsTop.card)
    /\ OptimizePop
    /\ UNCHANGED <<board, state, res, beam, ply, args>>

OptimizeNext ==
    \/ OptimizeNewInitial
    \/ OptimizeReplay
    \/ OptimizeEndgameState
    \/ OptimizeCall
    \/ OptimizePrune
    \/ OptimizeEmit
    \/ OptimizeSkip
    \/ OptimizeExpand
    \/ OptimizeDescend
    \/ OptimizeReturn

SpecOptimize == OptimizeInit /\ [][OptimizeNext]_vars

\* The answers of the file are games that end on the empty board with the
\* pile used up
OptimizeAnswersClear ==
    (pc = "endgame_state" /\ args.endgame_len = 0) =>
        /\ card_count(state.board) = 0
        /\ pile = <<>>
        /\ state.solution = args.solution
        /\ state.frame = OptimizeAnswers[args.answer].frame

\* C19: every answer the optimize dfs prints for a known solution S with
\* frame F has a frame strictly below F, an empty board and an empty pile,
\* and plays the moves of S on the replayed plies 0 .. 45 - endgame_len - 1.
C19_OptimizeEmits ==
    res.op = "optimize" =>
        \A k \in 1..Len(res.emitted) :
            /\ res.emitted[k].frame < args.frame
            /\ res.emitted[k].card_count = 0
            /\ res.emitted[k].pile_len = 0
            /\ \A p \in 0..(PLY_COUNT_MAX - args.endgame_len - 1) :
                  get_move(res.emitted[k].solution, p) = get_move(args.solution, p)

\* C19 witness: with F the frame of S itself, a solution is printed that
\* leaves S in the re-searched tail
C19_Witness ==
    /\ res.op = "optimize"
    /\ args.frame < 65535
    /\ args.endgame_len >= 2
    /\ \E k \in 1..Len(res.emitted) :
          /\ res.emitted[k].solution # args.solution
          /\ res.emitted[k].frame < args.frame

\* C19 witness: a printed answer whose money is below the money the level
\* asks for (200 at level 9)
C19_WitnessMoney ==
    /\ res.op = "optimize"
    /\ \E k \in 1..Len(res.emitted) : res.emitted[k].money < 200

-----------------------------------------------------------------------------
(* The beam of solve_midgame  (SpecMidgame)                                *)

\* C21: after every ply of solve_midgame the beam holds at most beam_width
\* states, each one of the ply's deduplicated expansions; the beam is cut
\* only when there are more deduplicated expansions than beam_width, and
\* then exactly beam_width of them are kept.
C21_BeamWidthBound ==
    res.op = "ply" =>
        /\ Len(beam) <= args.beam_width
        /\ \A i \in 1..Len(beam) : \E k \in 1..Len(res.dedup) : beam[i] = res.dedup[k]
        /\ \A i, j \in 1..Len(beam) : i # j => beam[i] # beam[j]
        /\ Len(res.dedup) <= args.beam_width => beam = res.dedup
        /\ Len(res.dedup) > args.beam_width => Len(beam) = args.beam_width

\* C21 witness: a ply with more deduplicated expansions than beam_width,
\* cut to a beam of beam_width states
C21_Witness ==
    /\ res.op = "ply"
    /\ args.beam_width = MaxBeamWidth
    /\ Len(res.dedup) > args.beam_width
    /\ Len(beam) = args.beam_width

\* C21 witness: a ply whose deduplicated expansions fit the beam and are
\* all kept
C21_WitnessNoCut ==
    /\ res.op = "ply"
    /\ Len(res.dedup) > 1
    /\ Len(res.dedup) = args.beam_width
    /\ beam = res.dedup

-----------------------------------------------------------------------------
(* SpecScores: the top-beam_width selection of one ply, a call of the key  *)
(* closure |state| Reverse(f_eval(&mut rng, ply, state)) per step.         *)
(* select_nth_unstable_by_key compares two elements a and b of the slice   *)
(* as f(a).lt(&f(b)): the closure is called for the left element and then  *)
(* for the right one, at every comparison.  The candidates are the         *)
(* deduplicated successors of the initial state; they are numbered by      *)
(* their position before the selection.                                    *)

MaxScoreBeamWidth == 4

ScoresInit ==
    /\ pc = "start"
    /\ \E d \in 1..NumMidgameDecks, level \in MidgameLevels,
          beam_width \in 1..MaxScoreBeamWidth, rng_seed \in 0..MaxSeed :
          /\ args = [level |-> level, money |-> 0, deck |-> MidgameDecks[d],
                     beam_width |-> beam_width, rng_seed |-> rng_seed]
          /\ pile = MidgameDecks[d]
    /\ beam = <<>>
    /\ ply = 0
    /\ res = Idle
    /\ state = Idle
    /\ stack = <<>>
    /\ board = BoardNew

\* solve_midgame up to the selection of ply 0: the generator seeded, the
\* initial state expanded, sorted and deduplicated; beam_nxt.len() >
\* beam_width, so select_nth_unstable_by_key starts (the first element is
\* the ordered prefix, the second is the one to insert)
ScoresBegin ==
    /\ pc = "start"
    /\ \E ini \in {new_initial(args.level, args.money, pile)} :
          /\ ini.ok
          /\ pile' = pile_pop(ini.pile)
          /\ \E nxt \in {dedup_by_board(sort_by_board_frame(
                             expand_from(<<ini.state>>, ply, pile_top(ini.pile), 1)))} :
                /\ Len(nxt) > args.beam_width
                /\ beam' = nxt
                /\ res' = [op |-> "select",
                           rng |-> seed_from_u64(args.rng_seed),
                           order |-> <<1>>,
                           i |-> 2,
                           j |-> 1,
                           at |-> "left",
                           left |-> 0,
                           cands |-> nxt,
                           draws |-> [k \in 1..Len(nxt) |-> 0]]
    /\ pc' = "select"
    /\ UNCHANGED <<board, state, stack, ply, args>>

\* The closure called for the left element of a comparison: the element
\* being inserted
ScoresKeyLeft ==
    /\ pc = "select"
    /\ res.i <= Len(beam)
    /\ res.at = "left"
    /\ \E e \in {f_eval(args.level, res.rng, ply, beam[res.i])} :
          res' = [res EXCEPT !.rng = e.rng, !.left = e.value, !.at = "right",
                             !.draws[res.i] = res.draws[res.i] + 1]
    /\ UNCHANGED <<pc, board, pile, state, beam, stack, ply, args>>

\* The ordered prefix with element i inserted behind position j
ScoresInsert(order, i, j) ==
    SubSeq(order, 1, j) \o <<i>> \o SubSeq(order, j + 1, Len(order))

\* The closure called for the right element, the element at position j of
\* the ordered prefix, and the comparison made: Reverse(left) < Reverse(right)
\* when left > right.  The inserted element moves on to position j - 1, or
\* it is put in place and the next element is taken.
ScoresKeyRight ==
    /\ pc = "select"
    /\ res.i <= Len(beam)
    /\ res.at = "right"
    /\ \E e \in {f_eval(args.level, res.rng, ply, beam[res.order[res.j]])} :
          res' = IF res.left > e.value /\ res.j > 1
                 THEN [res EXCEPT !.rng = e.rng, !.at = "left", !.j = res.j - 1,
                                  !.draws[res.order[res.j]] = res.draws[res.order[res.j]] + 1]
                 ELSE [res EXCEPT !.rng = e.rng, !.at = "left",
                                  !.order = ScoresInsert(res.order, res.i,
                                               IF res.left > e.value THEN 0 ELSE res.j),
                                  !.i = res.i + 1,
                                  !.j = Len(res.order) + 1,
                                  !.draws[res.order[res.j]] = res.draws[res.order[res.j]] + 1]
    /\ UNCHANGED <<pc, board, pile, state, beam, stack, ply, args>>

\* The selection is over: beam_nxt.truncate(beam_width); beam.append
ScoresTruncate ==
    /\ pc = "select"
    /\ res.i > Len(beam)
    /\ beam' = [k \in 1..args.beam_width |-> beam[res.order[k]]]
    /\ res' = [res EXCEPT !.op = "selected"]
    /\ pc' = "selected"
    /\ ply' = ply + 1
    /\ UNCHANGED <<board, pile, state, stack, args>>

ScoresNext ==
    \/ ScoresBegin
    \/ ScoresKeyLeft
    \/ ScoresKeyRight
    \/ ScoresTruncate

SpecScores == ScoresInit /\ [][ScoresNext]_vars

\* The steps select and leave the generator as truncate_beam computes them
ScoresAsTruncateBeam ==
    pc = "selected" =>
        \A t \in {truncate_beam(res.cands, args.beam_width,
                                seed_from_u64(args.rng_seed), args.level, 0)} :
            beam = t.v /\ res.rng = t.rng

\* C22: in a ply's top-beam_width selection the generator is called once
\* per candidate: every candidate gets exactly one jitter draw.
C22_OneDrawPerCandidate ==
    pc = "selected" => \A k \in 1..Len(res.cands) : res.draws[k] = 1

\* Every candidate is scored at least once, a draw per call of the closure
\* and two calls per comparison: with n candidates at least 2 * (n - 1) draws
C22_DrawsPerComparison ==
    pc = "selected" =>
        /\ \A k \in 1..Len(res.cands) : res.draws[k] >= 1
        /\ \E total \in {Sum5([k \in 0..4 |->
                                 IF k + 1 <= Len(res.cands) THEN res.draws[k + 1] ELSE 0])} :
              /\ total >= 2 * (Len(res.cands) - 1)
              /\ total % 2 = 0

\* C22 witness: a selection over five candidates is over and one candidate
\* was scored more than once
C22_Witness ==
    /\ pc = "selected"
    /\ Len(res.cands) = 5
    /\ \E k \in 1..Len(res.cands) : res.draws[k] > 1

-----------------------------------------------------------------------------
(* The frames of a yaku chain  (SpecYaku)                                  *)

\* The rows a card at (col, row) travels when the board settles: the empty
\* cells beneath it
RowsBeneath(b, col, row) ==
    Cardinality({q \in 0..(row - 1) : b[Sq(col, q)] = None})

\* The rows travelled by all cards of all columns when the board settles
RowsTravelled(b) ==
    Sum5([col \in Cols |->
            Sum5([row \in Rows |->
                    IF b[Sq(col, row)] # None THEN RowsBeneath(b, col, row) ELSE 0])])

\* The board with the cells `marked` emptied
BoardWithout(b, marked) ==
    [sq \in Squares |-> IF sq \in marked THEN None ELSE b[sq]]

\* The board with its yaku cells emptied
YakuCleared(b) == BoardWithout(b, squares_nonzero(detect_yaku(b)))

\* The board whose columns hold the cards `cc`, from the bottom row up
BoardOfColCards(cc) ==
    [sq \in Squares |->
        IF (sq % 5) + 1 <= Len(cc[sq \div 5]) THEN cc[sq \div 5][(sq % 5) + 1] ELSE None]

\* The board with every column's cards moved down, their order kept
SettledBoard(b) == BoardOfColCards([col \in Cols |-> ColCards(b, col)])

\* 72 + 8 * (cleared cells) + 8 * (rows travelled in the settle)
StepCostOf(marked, cleared) == 72 + 8 * Cardinality(marked) + 8 * RowsTravelled(cleared)

StepCostMarked(b, marked) == StepCostOf(marked, BoardWithout(b, marked))

StepCost(b) == StepCostMarked(b, squares_nonzero(detect_yaku(b)))

\* The sums of the costs and prizes over the steps that have a yaku, and
\* the board then left
RECURSIVE ChainTotals(_)
ChainTotalsAdd(cost, prize, rest) ==
    [frame |-> cost + rest.frame, prize |-> prize + rest.prize, board |-> rest.board]

ChainTotalsOf(b, yb, marked) ==
    IF marked = {} THEN [frame |-> 0, prize |-> 0, board |-> b]
    ELSE ChainTotalsAdd(StepCostMarked(b, marked), calc_prize(b, yb),
                        ChainTotals(SettledBoard(BoardWithout(b, marked))))

ChainTotalsYaku(b, yb) == ChainTotalsOf(b, yb, squares_nonzero(yb))

ChainTotals(b) == ChainTotalsYaku(b, detect_yaku(b))

\* C23: every prize-yielding yaku step costs 72 + 8 * (cleared cells) + 8 *
\* (rows travelled by all cards in the settle); process_yaku_chain returns
\* the sums of these costs and of the prizes over the prize-yielding steps
\* only, and on a settled board with no yaku it returns (0, 0) and leaves
\* the board as it was.
C23_ChainFrames ==
    pc \in {"chain", "done"} =>
        /\ res.last_prize > 0 =>
              /\ res.last_frame = StepCost(res.before)
              /\ board = SettledBoard(YakuCleared(res.before))
        /\ pc = "done" =>
              \A tot \in {ChainTotals(args.start)}, ch \in {process_yaku_chain(args.start)} :
                  /\ res.frame = tot.frame
                  /\ res.prize = tot.prize
                  /\ board = tot.board
                  /\ ch.frame = tot.frame
                  /\ ch.prize = tot.prize
                  /\ ch.board = tot.board
                  /\ count_nonzero(detect_yaku(args.start)) = 0 =>
                        res.frame = 0 /\ res.prize = 0 /\ board = args.start

\* C23 witness: a chain of two prize-yielding steps in which cards fell has
\* ended
C23_Witness ==
    /\ pc = "done"
    /\ res.steps >= 2
    /\ res.frame > 72 * res.steps + 8 * (card_count(args.start) - card_count(board))

\* C23 witness: a chain on a board with cards and no yaku has ended
C23_WitnessNoYaku ==
    /\ pc = "done"
    /\ res.steps = 0
    /\ card_count(args.start) >= 5
    /\ res.frame = 0
    /\ res.prize = 0

-----------------------------------------------------------------------------
(* SpecStraight: detect_straight_row / detect_straight_col on one line.    *)
(* A line of five cells, each empty or a card of a few ranks, is laid on   *)
(* the bottom row of the empty board, or, when no empty cell lies beneath  *)
(* a card, in a column.                                                    *)

NumLineRanks == 6

\* The ranks of a line's cards, the first NumLineRanks of these
LineRanks == <<2, 3, 4, RANK_A, RANK_K, 5, 6, 7>>

\* The suit of the card in each cell of the line
LineSuits == <<SPADE, HEART, DIAMOND, CLUB, HEART>>

\* The lines: no card twice
Lines ==
    {line \in [0..4 -> {None} \cup {LineRanks[k] : k \in 1..NumLineRanks}] :
        line[1] = None \/ line[1] # line[4]}

LineCard(line, i) == IF line[i] = None THEN None ELSE Card(LineSuits[i + 1], line[i])

StraightInit ==
    /\ pc = "line"
    /\ \E line \in Lines : args = [line |-> [i \in 0..4 |-> LineCard(line, i)]]
    /\ board = BoardNew
    /\ res = Idle
    /\ ply = 0
    /\ pile = <<>>
    /\ state = Idle
    /\ beam = <<>>
    /\ stack = <<>>

\* detect_straight_row on the bottom row holding the line
StraightRow ==
    /\ pc = "line"
    /\ \E b \in {[sq \in Squares |-> IF sq % 5 = 0 THEN args.line[sq \div 5] ELSE None]} :
          /\ board' = b
          /\ res' = [op |-> "row", marked |-> {sq \div 5 : sq \in detect_straight_row(b, 0)}]
    /\ pc' = "detected"
    /\ UNCHANGED <<args, ply, pile, state, beam, stack>>

\* detect_straight_col on a column holding the line, its cards settled
StraightCol(col) ==
    /\ pc = "line"
    /\ \A i \in 1..4 : args.line[i] # None => args.line[i - 1] # None
    /\ \E b \in {[sq \in Squares |-> IF sq \div 5 = col THEN args.line[sq % 5] ELSE None]} :
          /\ board' = b
          /\ res' = [op |-> "col", marked |-> {sq % 5 : sq \in detect_straight_col(b, col)}]
    /\ pc' = "detected"
    /\ UNCHANGED <<args, ply, pile, state, beam, stack>>

StraightNext ==
    \/ StraightRow
    \/ \E col \in Cols : StraightCol(col)

SpecStraight == StraightInit /\ [][StraightNext]_vars

\* The cells a..a+k-1 of the line hold cards whose ranks go up by one
AscendsFor(line, a, k) ==
    /\ a + k - 1 <= 4
    /\ \A i \in a..(a + k - 1) : line[i] # None
    /\ \A i \in (a + 1)..(a + k - 1) : Rank(line[i]) = RankNext(Rank(line[i - 1]))

\* The cells a..a+k-1 of the line hold cards whose ranks go down by one
DescendsFor(line, a, k) ==
    /\ a + k - 1 <= 4
    /\ \A i \in a..(a + k - 1) : line[i] # None
    /\ \A i \in (a + 1)..(a + k - 1) : Rank(line[i]) = RankPrev(Rank(line[i - 1]))

Longest(S) == CHOOSE k \in S : \A m \in S : m <= k

AscendRun(line, a) == Longest({0} \cup {k \in 1..5 : AscendsFor(line, a, k)})

DescendRun(line, a) == Longest({0} \cup {k \in 1..5 : DescendsFor(line, a, k)})

\* The run used at an anchor: the ascending one if it has two cards or
\* more, else the descending one
AnchorRun(line, a) ==
    IF AscendRun(line, a) >= 2 THEN AscendRun(line, a) ELSE DescendRun(line, a)

\* The anchors 0, 1, 2 whose run has three cards or more
AnchorsWithRun(line) == {a \in 0..2 : AnchorRun(line, a) >= 3}

\* The cells of the run at the first such anchor
FirstRunCells(line) ==
    IF AnchorsWithRun(line) = {} THEN {}
    ELSE LET a == CHOOSE x \in AnchorsWithRun(line) : \A y \in AnchorsWithRun(line) : x <= y
         IN  a..(a + AnchorRun(line, a) - 1)

\* C24: straight detection marks at most one run per line: the anchors 0,
\* 1, 2 are tried in order, at each the ascending run is used if it has at
\* least 2 cards and else the descending one, and the first anchor whose
\* run has 3 cards or more is marked and ends the scan; a row reading
\* 2 3 4 3 2 has only its cells 0..2 marked.
C24_OneStraightPerLine ==
    pc = "detected" =>
        /\ res.marked = FirstRunCells(args.line)
        /\ \A i, j \in res.marked : \A k \in i..j : k \in res.marked
        /\ [i \in 0..4 |-> IF args.line[i] = None THEN 0 ELSE Rank(args.line[i])]
              = [i \in 0..4 |-> <<2, 3, 4, 3, 2>>[i + 1]]
           => res.marked = 0..2

\* C24 witness: the row 2 3 4 3 2, its cells 0..2 marked
C24_Witness ==
    /\ pc = "detected"
    /\ res.op = "row"
    /\ \A i \in 0..4 : args.line[i] # None /\ Rank(args.line[i]) = <<2, 3, 4, 3, 2>>[i + 1]
    /\ res.marked = 0..2

\* C24 witness: a column whose first anchor has an ascending pair and whose
\* second anchor starts a descending run, which is marked
C24_WitnessSecondAnchor ==
    /\ pc = "detected"
    /\ res.op = "col"
    /\ AscendRun(args.line, 0) = 2
    /\ res.marked = 1..3

-----------------------------------------------------------------------------
(* SpecCombo: calc_prize on boards with many yaku cells.  The board has up *)
(* to MaxComboRows full rows; row r holds cards of the ranks 3r+1, 3r+2,   *)
(* 3r+3 in one of five patterns, its suits rotated by r, so no card is on  *)
(* the board twice.                                                        *)

MaxComboRows == 4

ComboPatterns == {"none", "three", "four", "straight", "flush"}

\* The ranks of the pattern's cells, as offsets into the row's three ranks
ComboRankOffsets(pattern) ==
    CASE pattern = "none" -> <<1, 3, 1, 3, 2>>
      [] pattern = "three" -> <<1, 1, 1, 3, 3>>
      [] pattern = "four" -> <<1, 1, 1, 1, 3>>
      [] pattern = "straight" -> <<1, 2, 3, 1, 3>>
      [] pattern = "flush" -> <<1, 3, 2, 3, 1>>

\* The suits of the pattern's cells, before the rotation
ComboSuitOffsets(pattern) ==
    IF pattern = "flush" THEN <<0, 0, 0, 1, 2>> ELSE <<0, 1, 2, 3, 0>>

\* The card of cell `col` of row `row`
ComboCard(pattern, row, col) ==
    Card(1 + ((ComboSuitOffsets(pattern)[col + 1] + row) % 4),
         3 * row + ComboRankOffsets(pattern)[col + 1])

\* The board whose rows 0..Len(patterns)-1 hold the patterns
ComboBoard(patterns) ==
    [sq \in Squares |->
        IF sq % 5 < Len(patterns) THEN ComboCard(patterns[(sq % 5) + 1], sq % 5, sq \div 5)
        ELSE None]

ComboInit ==
    /\ pc = "board"
    /\ \E n \in 0..MaxComboRows : \E patterns \in [1..n -> ComboPatterns] :
          board = ComboBoard(patterns)
    /\ args = Idle
    /\ res = Idle
    /\ ply = 0
    /\ pile = <<>>
    /\ state = Idle
    /\ beam = <<>>
    /\ stack = <<>>

\* process_yaku_step up to the prize: detect_yaku, calc_prize
ComboCalcPrize ==
    /\ pc = "board"
    /\ \E yb \in {detect_yaku(board)} :
          res' = [op |-> "calc_prize",
                  count |-> count_nonzero(yb),
                  base |-> calc_prize_base(board, yb),
                  prize |-> calc_prize(board, yb)]
    /\ pc' = "prize"
    /\ UNCHANGED <<board, args, ply, pile, state, beam, stack>>

\* process_yaku_step after the prize: the marked squares cleared, the fall
ComboStep ==
    /\ pc = "prize"
    /\ \E cur \in {process_yaku_step(board)} :
          /\ board' = cur.board
          /\ res' = [res EXCEPT !.op = "step"]
    /\ pc' = "stepped"
    /\ UNCHANGED <<args, ply, pile, state, beam, stack>>

ComboNext ==
    \/ ComboCalcPrize
    \/ ComboStep

SpecCombo == ComboInit /\ [][ComboNext]_vars

\* The factor by the number of cells with a non-zero mask
ComboFactor ==
    [n \in 0..25 |->
        IF n <= 5 THEN 1
        ELSE IF n >= 12 THEN 10
        ELSE <<2, 3, 5, 6, 7, 8>>[n - 5]]

\* The cells of the board that lie in a run of three or more cells of a row
\* or a column that is a straight, a flush or an n of a kind
ComboCells(b) == squares_nonzero(detect_yaku(b))

\* C25: the prize of a step is the sum of the category prizes times a
\* factor by the number of cells with a non-zero mask on the whole board:
\* 1 for 0 to 5 cells, 2 for 6, 3 for 7, 5 for 8, 6 for 9, 7 for 10, 8 for
\* 11, 10 for 12 or more; a sum of 0 gives the prize 0.
C25_ComboMultiplier ==
    pc = "prize" =>
        /\ res.count = Cardinality(ComboCells(board))
        /\ res.prize = res.base * ComboFactor[res.count]
        /\ res.base = 0 => res.prize = 0
        /\ res.base = calc_prize_straight_flush(board, detect_yaku(board))
                      + calc_prize_straight(detect_yaku(board))
                      + calc_prize_flush(detect_yaku(board))
                      + calc_prize_n_of_kind(detect_yaku(board))

\* C25 witness: a prize with 10 cells marked, seven times the sum
C25_Witness ==
    /\ pc = "prize"
    /\ res.count = 10
    /\ res.base > 0
    /\ res.prize = 7 * res.base

\* C25 witnesses of the other factors
C25_Witness6 == pc = "prize" /\ res.count = 6 /\ res.prize = 2 * res.base

C25_Witness7 == pc = "prize" /\ res.count = 7 /\ res.prize = 3 * res.base

C25_Witness8 == pc = "prize" /\ res.count = 8 /\ res.prize = 5 * res.base

C25_Witness9 == pc = "prize" /\ res.count = 9 /\ res.prize = 6 * res.base

C25_Witness11 == pc = "prize" /\ res.count = 11 /\ res.prize = 8 * res.base

C25_Witness12 == pc = "prize" /\ res.count = 12 /\ res.prize = 10 * res.base

C25_Witness13 == pc = "prize" /\ res.count > 12 /\ res.prize = 10 * res.base

C25_WitnessZero == pc = "prize" /\ card_count(board) >= 10 /\ res.count = 0 /\ res.prize = 0

-----------------------------------------------------------------------------
(* SpecSolve: examples/solve.rs.  solve_midgame's result is taken to be    *)
(* what the beam search returns when, up to its last ply, the beam is the  *)
(* state of a known game: the successors of that state in the last midgame *)
(* ply, deduplicated and sorted by money.  main then truncates the list    *)
(* and calls solve_endgame for each candidate in turn, each call with      *)
(* cli.frame_best and a clone of the pile.  The calls run the dfs of       *)
(* SpecEndgame; what they print accumulates in res.emitted.  `state` holds *)
(* main's locals: the pile solve_midgame returned and the number of        *)
(* candidates handed to solve_endgame so far.  When the run is over, a     *)
(* printed line can be replayed as examples/optimize.rs replays an answer: *)
(* State::new_initial, then do_move per ply with the move the solution     *)
(* holds; `state` then also holds the replay's state, pile and ply.        *)

MinSolveLen == 2
MaxSolveLen == 3
MaxSolveCands == 5

\* The games the beam follows
SolveGames ==
    <<[deck |-> 1, solution |-> SolutionOfCols(OptimizeColsSorted, <<>>)],
      [deck |-> 2, solution |-> SolutionOfCols(OptimizeColsCheat, <<>>)]>>

\* cli.frame_best: the default Frame::MAX, or the frame of a known solution
SolveFrameBests == {65535, 5609}

SolveInit ==
    /\ pc = "start"
    /\ \E g \in 1..Len(SolveGames), endgame_len \in MinSolveLen..MaxSolveLen,
          frame_best \in SolveFrameBests, endgame_state_count \in {1, MaxSolveCands} :
          args = [level |-> OptimizeLevel,
                  money |-> 0,
                  deck |-> OptimizeDecks[SolveGames[g].deck],
                  solution |-> SolveGames[g].solution,
                  frame_best |-> frame_best,
                  endgame_state_count |-> endgame_state_count,
                  endgame_len |-> endgame_len]
    /\ pile = <<>>
    /\ state = Idle
    /\ ply = 0
    /\ res = Idle
    /\ stack = <<>>
    /\ board = BoardNew
    /\ beam = <<>>

\* solve_midgame up to the loop: State::new_initial, the beam holding the
\* initial state
SolveMidgameBegin ==
    /\ pc = "start"
    /\ \E ini \in {new_initial(args.level, args.money, args.deck)} :
          /\ ini.ok
          /\ beam' = <<ini.state>>
          /\ pile' = ini.pile
    /\ pc' = "midgame"
    /\ UNCHANGED <<board, state, res, stack, ply, args>>

\* A ply of solve_midgame before the last: the beam is cut to the state of
\* the known game
SolveMidgamePly ==
    /\ pc = "midgame"
    /\ ply < PLY_COUNT_MAX - args.endgame_len - 1
    /\ beam' = <<do_move(beam[1], ply, pile_top(pile), get_move(args.solution, ply))>>
    /\ pile' = pile_pop(pile)
    /\ ply' = ply + 1
    /\ UNCHANGED <<pc, board, state, res, stack, args>>

\* The last ply of solve_midgame and main up to its loop: the beam
\* expanded, sorted and deduplicated, then sorted by money and returned;
\* assert_eq!(pile.len(), endgame_len); cands.truncate(endgame_state_count)
SolveMidgameReturn ==
    /\ pc = "midgame"
    /\ ply = PLY_COUNT_MAX - args.endgame_len - 1
    /\ Len(pile) - 1 = args.endgame_len
    /\ \E cands \in {sort_by_money(dedup_by_board(sort_by_board_frame(
                         expand_from(beam, ply, pile_top(pile), 1))))} :
          beam' = SubSeq(cands, 1, IF Len(cands) < args.endgame_state_count
                                   THEN Len(cands) ELSE args.endgame_state_count)
    /\ pile' = pile_pop(pile)
    /\ ply' = ply + 1
    /\ state' = [pile |-> pile_pop(pile), i |-> 0, replayed |-> 0, ply |-> 0,
                 state |-> Idle, rest |-> <<>>]
    /\ res' = [op |-> "solve_midgame", frame_best |-> args.frame_best, emitted |-> <<>>]
    /\ pc' = "returned"
    /\ UNCHANGED <<board, stack, args>>

\* for (i, cand) in cands: solve_endgame(level, pile.clone(), cand,
\* cli.frame_best), up to the outermost call of dfs
SolveEndgameCall ==
    /\ pc = "returned"
    /\ state.i < Len(beam)
    /\ args.level >= 9
    /\ Len(state.pile) <= ENDGAME_PLY_COUNT_MAX
    /\ pile' = state.pile
    /\ stack' = <<[at |-> "enter", state |-> beam[state.i + 1], pile_in |-> state.pile]>>
    /\ res' = [op |-> "solve_endgame", frame_best |-> args.frame_best,
               emitted |-> res.emitted]
    /\ state' = [state EXCEPT !.i = state.i + 1]
    /\ pc' = "dfs"
    /\ UNCHANGED <<board, beam, ply, args>>

\* The run is over and the k-th printed line is replayed:
\* State::new_initial(level, money, pile)
SolveReplayBegin(k) ==
    /\ pc = "returned"
    /\ state.i = Len(beam)
    /\ k <= Len(res.emitted)
    /\ \E ini \in {new_initial(args.level, args.money, args.deck)} :
          /\ ini.ok
          /\ state' = [state EXCEPT !.replayed = k, !.ply = 0,
                                    !.state = ini.state, !.rest = ini.pile]
    /\ pc' = "replay"
    /\ UNCHANGED <<board, pile, res, beam, stack, ply, args>>

\* A ply of the replay: card = pile.pop().unwrap(); col =
\* solution.get_move(ply).unwrap(); state = state.do_move(ply, card, col)
SolveReplayPly ==
    /\ pc = "replay"
    /\ state.ply < PLY_COUNT_MAX
    /\ state.rest # <<>>
    /\ \E col \in {get_move(res.emitted[state.replayed].solution, state.ply)} :
          /\ col \in Cols
          /\ put(state.state.board, col, pile_top(state.rest)).ok
          /\ state' = [state EXCEPT
                          !.state = do_move(state.state, state.ply, pile_top(state.rest), col),
                          !.rest = pile_pop(state.rest),
                          !.ply = state.ply + 1]
    /\ UNCHANGED <<pc, board, pile, res, beam, stack, ply, args>>

SolveNext ==
    \/ SolveMidgameBegin
    \/ SolveMidgamePly
    \/ SolveMidgameReturn
    \/ SolveEndgameCall
    \/ \E k \in 1..(2 * MaxSolveCands) : SolveReplayBegin(k)
    \/ SolveReplayPly
    \/ DfsPrune
    \/ DfsEmit
    \/ DfsReject
    \/ DfsExpand
    \/ DfsDescend
    \/ DfsReturn

SpecSolve == SolveInit /\ [][SolveNext]_vars

\* The candidate a printed solution was found for: the candidate whose
\* moves it extends
SolveCandOf(sol) ==
    CHOOSE c \in 1..Len(beam) :
        \A p \in 0..(PLY_COUNT_MAX - args.endgame_len - 1) :
            get_move(sol, p) = get_move(beam[c].solution, p)

SolveImprovesPerCand ==
    pc \in {"dfs", "returned"} =>
        /\ \A i \in 1..Len(res.emitted) : res.emitted[i].frame < args.frame_best
        /\ \A i, j \in 1..Len(res.emitted) :
              (i < j /\ SolveCandOf(res.emitted[i].solution) = SolveCandOf(res.emitted[j].solution))
                 => res.emitted[j].frame < res.emitted[i].frame

-----------------------------------------------------------------------------
(* SpecGame: a game from a level 9 or 10 initial layout, a move per step:  *)
(* the next card is popped and the state replaced by one of its            *)
(* State::neighbors, or by State::do_move on a column that is not full.    *)

MaxGamePlies == 5

GameInit ==
    /\ pc = "start"
    /\ \E d \in 1..Len(MidgameDecks), level \in MidgameLevels :
          /\ args = [level |-> level, money |-> 0, deck |-> MidgameDecks[d]]
          /\ pile = MidgameDecks[d]
    /\ state = Idle
    /\ ply = 0
    /\ res = Idle
    /\ stack = <<>>
    /\ board = BoardNew
    /\ beam = <<>>

\* State::new_initial(level, money, pile)
GameNewInitial ==
    /\ pc = "start"
    /\ \E ini \in {new_initial(args.level, args.money, pile)} :
          /\ ini.ok
          /\ state' = ini.state
          /\ pile' = ini.pile
    /\ pc' = "game"
    /\ res' = [op |-> "new_initial"]
    /\ UNCHANGED <<board, beam, stack, ply, args>>

\* state.neighbors(ply, card): one of the successors is taken
GameNeighbor ==
    /\ pc = "game"
    /\ ply < MaxGamePlies
    /\ \E nbs \in {neighbors(state, ply, pile_top(pile))} :
       \E i \in 1..Len(nbs) :
          /\ state' = nbs[i]
          /\ res' = [op |-> "neighbors", before |-> state.board, card |-> pile_top(pile),
                     col |-> get_move(nbs[i].solution, ply), count |-> Len(nbs)]
    /\ pile' = pile_pop(pile)
    /\ ply' = ply + 1
    /\ UNCHANGED <<pc, board, beam, stack, args>>

\* state.do_move(ply, card, col) on a column that is not full
GameDoMove(col) ==
    /\ pc = "game"
    /\ ply < MaxGamePlies
    /\ put(state.board, col, pile_top(pile)).ok
    /\ state' = do_move(state, ply, pile_top(pile), col)
    /\ res' = [op |-> "do_move", before |-> state.board, card |-> pile_top(pile),
               col |-> col, count |-> 0]
    /\ pile' = pile_pop(pile)
    /\ ply' = ply + 1
    /\ UNCHANGED <<pc, board, beam, stack, args>>

GameNext ==
    \/ GameNewInitial
    \/ GameNeighbor
    \/ \E col \in Cols : GameDoMove(col)

SpecGame == GameInit /\ [][GameNext]_vars

\* The board after the card of the last move was put, before the chain
GameBoardPut == put(res.before, res.col, res.card).board

\* C27: every board reached from a level 9 or 10 initial layout by
\* neighbors / do_move transitions is gravity-settled: in no column does an
\* empty cell lie beneath an occupied cell.
C27_BoardsSettled ==
    pc = "game" =>
        \A col \in Cols : \A r \in Rows :
            state.board[Sq(col, r)] # None =>
                \A q \in 0..(r - 1) : state.board[Sq(col, q)] # None

\* C27 witness: a move whose yaku chain emptied cells beneath cards, which
\* fell, and the board it left
C27_Witness ==
    /\ pc = "game"
    /\ res.op \in {"neighbors", "do_move"}
    /\ RowsTravelled(YakuCleared(GameBoardPut)) > 0
    /\ card_count(state.board) > 0

\* C27 witness: a state with a full column, which has four successors
C27_WitnessFull ==
    /\ pc = "game"
    /\ res.op = "neighbors"
    /\ res.count = 4

-----------------------------------------------------------------------------
(* Boards at rest  (SpecGame)                                              *)

\* Three cards: ranks going up by one, or down by one, or one suit, or one
\* rank
IsYakuTriple(c1, c2, c3) ==
    \/ Rank(c2) = RankNext(Rank(c1)) /\ Rank(c3) = RankNext(Rank(c2))
    \/ Rank(c2) = RankPrev(Rank(c1)) /\ Rank(c3) = RankPrev(Rank(c2))
    \/ Suit(c1) = Suit(c2) /\ Suit(c2) = Suit(c3)
    \/ Rank(c1) = Rank(c2) /\ Rank(c2) = Rank(c3)

\* Three cells in a row of the board, or in a column, hold such cards
HasYakuRun(b) ==
    \E line \in 0..4, a \in 0..2 :
        \/ /\ \A i \in a..(a + 2) : b[Sq(i, line)] # None
           /\ IsYakuTriple(b[Sq(a, line)], b[Sq(a + 1, line)], b[Sq(a + 2, line)])
        \/ /\ \A i \in a..(a + 2) : b[Sq(line, i)] # None
           /\ IsYakuTriple(b[Sq(line, a)], b[Sq(line, a + 1)], b[Sq(line, a + 2)])

\* C29: the level 9 or 10 initial board and every board left by neighbors /
\* do_move hold no run of three or more straight, flush or n-of-a-kind
\* cards on a row or a column, and detection marks no cell of them.
C29_NoYakuAtRest ==
    pc = "game" =>
        /\ ~HasYakuRun(state.board)
        /\ count_nonzero(detect_yaku(state.board)) = 0

\* C29 witness: a move whose card made a yaku and whose chain had two
\* prize-yielding steps, and the board it left
C29_Witness ==
    /\ pc = "game"
    /\ res.op \in {"neighbors", "do_move"}
    /\ HasYakuRun(GameBoardPut)
    /\ process_yaku_chain(GameBoardPut).steps >= 2
    /\ card_count(state.board) > 0

\* C29 witness: the initial board of a deck whose first seven cards are
\* connected and are replaced by the layout
C29_WitnessInitial ==
    /\ pc = "game"
    /\ res.op = "new_initial"
    /\ card_count(state.board) = 7
    /\ HasYakuRun([sq \in Squares |-> IF sq % 5 = 0 THEN pile_at(args.deck, sq \div 5) ELSE None])

-----------------------------------------------------------------------------
(* The printed solutions replayed  (SpecSolve)                             *)

\* The moves of the solution on the plies 0..n-1 are those of `of`
SolutionExtends(sol, of, n) ==
    \A p \in 0..(n - 1) : get_move(sol, p) = get_move(of, p)

\* C28: when solve_endgame is started from a midgame state with P moves and
\* a pile of 45 - P cards, every solution it prints has exactly 45 moves,
\* the first P of them the moves of the starting state, and its replay with
\* do_move from the level's initial state and deck can make every move and
\* ends with the printed frame and money, an empty board and an empty pile.
C28_SolutionsReplay ==
    /\ pc \in {"dfs", "returned", "replay"} =>
          \A k \in 1..Len(res.emitted) :
              /\ solution_len(res.emitted[k].solution) = PLY_COUNT_MAX
              /\ \A p \in 0..(PLY_COUNT_MAX - 1) : get_move(res.emitted[k].solution, p) \in Cols
              /\ \E c \in 1..state.i :
                    /\ solution_len(beam[c].solution) = PLY_COUNT_MAX - args.endgame_len
                    /\ Len(state.pile) = PLY_COUNT_MAX - solution_len(beam[c].solution)
                    /\ SolutionExtends(res.emitted[k].solution, beam[c].solution,
                                       PLY_COUNT_MAX - args.endgame_len)
    /\ pc = "replay" =>
          /\ state.ply < PLY_COUNT_MAX =>
                /\ state.rest # <<>>
                /\ put(state.state.board,
                       get_move(res.emitted[state.replayed].solution, state.ply),
                       pile_top(state.rest)).ok
          /\ state.ply = PLY_COUNT_MAX =>
                /\ state.state.frame = res.emitted[state.replayed].frame
                /\ state.state.money = res.emitted[state.replayed].money
                /\ state.state.solution = res.emitted[state.replayed].solution
                /\ card_count(state.state.board) = 0
                /\ state.rest = <<>>

\* C28 witness: the replay of the second line a run printed is over
C28_Witness ==
    /\ pc = "replay"
    /\ state.replayed >= 2
    /\ state.ply = PLY_COUNT_MAX
    /\ state.state.frame = res.emitted[state.replayed].frame
    /\ card_count(state.state.board) = 0

-----------------------------------------------------------------------------
(* The disconnect calls of the level 9 and 10 layouts  (SpecLayout)        *)

\* How often the card occurs in the sequence / on the board
TimesIn(seq, card) == Cardinality({n \in 1..Len(seq) : seq[n] = card})

TimesOn(b, card) == Cardinality({sq \in Squares : b[sq] = card})

\* The call left every card in place but those drawn j-th and k-th, and
\* these two changed places
SwappedOnly(call) ==
    /\ Len(call.after) = Len(call.before)
    /\ pile_at(call.after, call.j) = pile_at(call.before, call.k)
    /\ pile_at(call.after, call.k) = pile_at(call.before, call.j)
    /\ \A idx \in 0..(Len(call.before) - 1) :
          idx \notin {call.j, call.k} =>
              pile_at(call.after, idx) = pile_at(call.before, idx)

\* C30: on a deck of 52 distinct cards every disconnect call of the level 9
\* and 10 layout returns, those that search stop at an index k with
\* 10 <= k <= 51 and swap only the cards drawn j-th and k-th, and the 7
\* cards on the board with the 45 cards of the pile are the 52 cards given.
C30_DisconnectInDeck ==
    (/\ pc = "laid"
     /\ args.level >= 9
     /\ Len(args.deck) = 52
     /\ Cardinality(SeqRange(args.deck)) = 52) =>
        /\ res.ok
        /\ Len(res.calls) = 7
        /\ \A n \in 1..Len(res.calls) :
              /\ res.calls[n].ok
              /\ res.calls[n].before = (IF n = 1 THEN args.deck ELSE res.calls[n - 1].after)
              /\ IF is_connected(pile_at(res.calls[n].before, res.calls[n].i),
                                 pile_at(res.calls[n].before, res.calls[n].j))
                 THEN /\ res.calls[n].k >= 10
                      /\ res.calls[n].k <= 51
                      /\ SwappedOnly(res.calls[n])
                 ELSE res.calls[n].after = res.calls[n].before
        /\ card_count(board) = 7
        /\ Len(pile) = 45
        /\ \A card \in SeqRange(args.deck) :
              TimesIn(pile, card) + TimesOn(board, card) = 1

\* C30 witness: a layout of distinct cards whose calls swapped three times
C30_Witness ==
    /\ pc = "laid"
    /\ args.level >= 9
    /\ Cardinality(SeqRange(args.deck)) = 52
    /\ res.ok
    /\ Cardinality({n \in 1..Len(res.calls) : res.calls[n].k >= 10}) >= 3
    /\ Len(pile) = 45

\* C30 witness: a search that passed every card connected to its first card
C30_WitnessFarthest ==
    /\ pc = "laid"
    /\ args.level >= 9
    /\ Cardinality(SeqRange(args.deck)) = 52
    /\ res.ok
    /\ res.calls[1].k = 30

====
